---- MODULE Spec2Model ----
(***************************************************************************)
(* Judge agent of judge-core: the agent loop (crates/agent/src/main.rs),   *)
(* Engine::judge (crates/agent/src/engine.rs) and the C++ handler          *)
(* (crates/agent/src/handler/cpp.rs), with the guest's file system, cgroup *)
(* tree and the vsock stream as the environment.                           *)
(*                                                                         *)
(* The agent runs on one cooperative scheduler; an action covers the code  *)
(* between two suspension points of the task it belongs to.  Whatever the  *)
(* kernel, the compiler or the judged program decides (an I/O error, the   *)
(* exit status, the output, the usage counters) is chosen with \E.         *)
(***************************************************************************)
EXTENDS Integers, Sequences, FiniteSets, TLC

(***************************************************************************)
(* Bounds of the model                                                     *)
(***************************************************************************)
\* request frames the host sends before it closes the stream
MaxRequests == 2
\* test cases of one submission
MaxTests == 2
\* lines of a cpu.stat text handed to the parser on its own
MaxLines == 3
\* frames written in full to one stream
MaxFrames == 2
\* largest value of the model's u64, which is narrower than the program's
U64_MAX == 255

(***************************************************************************)
(* Program constants                                                       *)
(***************************************************************************)
\* constants.rs: DEFAULT_COMPILE_TIME_LIMIT_MS
DEFAULT_COMPILE_TIME_LIMIT_MS == 60000
\* constants.rs: DEFAULT_COMPILE_MEMORY_LIMIT_KIB = 256 * 1024
DEFAULT_COMPILE_MEMORY_LIMIT_KIB == 262144
\* cpp.rs: ExponentialBackoff::from_millis(100).map(jitter).take(3): delays handed to Retry
RETRY_DELAYS == 3
\* bytes per KiB, cpp.rs: memory_limit_kib * 1024 and (memory + 1023) / 1024
KIB == 1024
\* the number of values of the u64 in which cpp.rs computes with memory sizes: 2^16 here
\* for the program's 2^64, a power of two that KIB divides
WORD == 65536

(***************************************************************************)
(* Text.  A string is a sequence of characters; the model's alphabet is    *)
(* small.  str::trim removes leading and trailing White_Space characters:  *)
(* those of the Unicode property, of which U+00A0 ("nbsp") is one that is   *)
(* not ASCII.  Bytes are written as the ASCII character they encode, and    *)
(* "C2", "A0" are the two bytes that encode U+00A0.                         *)
(***************************************************************************)
WhiteSpace == {" ", "\n", "\t", "\r", "nbsp"}

\* String::from_utf8_lossy: a well-formed sequence becomes its character, a byte that is
\* part of none becomes U+FFFD ("fffd")
RECURSIVE FromUtf8Lossy(_)
FromUtf8Lossy(bytes) ==
    IF bytes = <<>> THEN <<>>
    ELSE IF Len(bytes) >= 2 /\ bytes[1] = "C2" /\ bytes[2] = "A0"
    THEN <<"nbsp">> \o FromUtf8Lossy(SubSeq(bytes, 3, Len(bytes)))
    ELSE IF Head(bytes) \in {"C2", "A0"}
    THEN <<"fffd">> \o FromUtf8Lossy(Tail(bytes))
    ELSE <<Head(bytes)>> \o FromUtf8Lossy(Tail(bytes))

RECURSIVE TrimStart(_)
TrimStart(s) ==
    IF s = <<>> THEN <<>>
    ELSE IF Head(s) \in WhiteSpace THEN TrimStart(Tail(s))
    ELSE s

RECURSIVE TrimEnd(_)
TrimEnd(s) ==
    IF s = <<>> THEN <<>>
    ELSE IF s[Len(s)] \in WhiteSpace THEN TrimEnd(SubSeq(s, 1, Len(s) - 1))
    ELSE s

Trim(s) == TrimEnd(TrimStart(s))

\* format!("Stdout:\n{}\nStderr:\n{}", stdout, stderr); the literal parts are one token each
FormatOutput(stdout, stderr) == <<"Stdout:\n">> \o stdout \o <<"\nStderr:\n">> \o stderr

Max(a, b) == IF a >= b THEN a ELSE b

(***************************************************************************)
(* Requests the host may send                                              *)
(***************************************************************************)
RequestIds == {1, 2}
ExpectedOutputs == {<<"a">>}
InputDatas == {<<"i">>}
TimeLimitsMs == {1}
MemoryLimitsKib == {1}

TestCase == [input_data : InputDatas, expected_output : ExpectedOutputs]

TestCaseLists == UNION {[1..n -> TestCase] : n \in 0..MaxTests}

ResourceLimits == [time_ms : TimeLimitsMs, memory_kib : MemoryLimitsKib]

\* a source text, told apart by what the program built from it does when run: "any" is a
\* program about which nothing is known
SourceCodes == {[kind |-> "any"]}

JudgeRequest ==
    [id : RequestIds, language : {"Cpp"}, source_code : SourceCodes,
     test_cases : TestCaseLists, limits : ResourceLimits]

\* placeholders for "no request read yet" and "no response yet"
NoRequest ==
    [id |-> 0, language |-> "Cpp", source_code |-> [kind |-> "none"],
     test_cases |-> <<>>, limits |-> [time_ms |-> 0, memory_kib |-> 0]]
NoResponse == [id |-> 0, is_fatal_error |-> FALSE, result |-> [tag |-> "none"]]
NoContext == [work_dir |-> 0]
NoResult == [ok |-> FALSE]
NoCompile == [called |-> FALSE]
NoCpuStat == [text |-> <<>>, parsed |-> NoResult]
\* no process has loaded a seccomp filter and no load has failed
NoFilters == [agent |-> "none", compiler |-> "none", program |-> "none", load_failed |-> FALSE]

(***************************************************************************)
(* What a judged program (or the compiler) may do                          *)
(***************************************************************************)
Stdouts == {<<>>, <<"a">>, <<"a", "\n">>, <<"a", "a", "a">>}
Stderrs == {<<>>, <<"e">>}
\* max_usage_in_bytes of memory.stat: around each KiB step
MemoryUsages == {0, 1, KIB, KIB + 1}
\* usage_usec of cpu.stat
UsageUsecs == {0, 1, 2}
\* now.elapsed().as_millis()
RealTimesMs == {1, 2}

(***************************************************************************)
(* Results of handler calls: Ok(v) and Err(e)                              *)
(***************************************************************************)
Ok(v) == [ok |-> TRUE, val |-> v]
Err(e) == [ok |-> FALSE, err |-> e]

\* Option: None and Some(v)
None == [some |-> FALSE]
Some(v) == [some |-> TRUE, val |-> v]

\* HandlerError, handler/mod.rs
IoError(msg) == [kind |-> "IoError", msg |-> msg]
CgroupError(msg) == [kind |-> "CgroupError", msg |-> msg]
ParseCpuStatsError(msg) == [kind |-> "ParseCpuStatsError", msg |-> msg]
HandlerTimeLimitExceeded == [kind |-> "TimeLimitExceeded", msg |-> ""]
HandlerMemoryLimitExceeded == [kind |-> "MemoryLimitExceeded", msg |-> ""]
HandlerOutputLimitExceeded == [kind |-> "OutputLimitExceeded", msg |-> ""]
HandlerInternalError(msg) == [kind |-> "InternalError", msg |-> msg]

(***************************************************************************)
(* JudgeResult and JudgeResponse, shared/src/rpc.rs                        *)
(***************************************************************************)
Accepted(cpu, real, mem) ==
    [tag |-> "Accepted", cpu_time_ms |-> cpu, real_time_ms |-> real, memory_kib |-> mem]
WrongAnswer(expected, actual) ==
    [tag |-> "WrongAnswer", expected_output |-> expected, actual_output |-> actual]
RuntimeError(output, msg) ==
    [tag |-> "RuntimeError", actual_output |-> output, error_message |-> msg]
CompilationError(msg) == [tag |-> "CompilationError", compiler_message |-> msg]
InternalError(msg) == [tag |-> "InternalError", error_message |-> msg]
TimeLimitExceeded == [tag |-> "TimeLimitExceeded"]
MemoryLimitExceeded == [tag |-> "MemoryLimitExceeded"]
OutputLimitExceeded == [tag |-> "OutputLimitExceeded"]

\* variant: a cgroup error is reported as a failure of the judged program
FromHandlerErrorBlamesProgram(e) ==
    CASE e.kind = "IoError" -> InternalError(e.msg)
      [] e.kind = "TimeLimitExceeded" -> TimeLimitExceeded
      [] e.kind = "MemoryLimitExceeded" -> MemoryLimitExceeded
      [] e.kind = "OutputLimitExceeded" -> OutputLimitExceeded
      [] e.kind = "InternalError" -> InternalError(e.msg)
      [] e.kind = "CgroupError" -> RuntimeError(<<>>, e.msg)
      [] e.kind = "ParseCpuStatsError" -> InternalError(e.msg)

\* impl From<HandlerError> for JudgeResult
FromHandlerError(e) ==
    CASE e.kind = "IoError" -> InternalError(e.msg)
      [] e.kind = "TimeLimitExceeded" -> TimeLimitExceeded
      [] e.kind = "MemoryLimitExceeded" -> MemoryLimitExceeded
      [] e.kind = "OutputLimitExceeded" -> OutputLimitExceeded
      [] e.kind = "InternalError" -> InternalError(e.msg)
      [] e.kind = "CgroupError" -> InternalError(e.msg)
      [] e.kind = "ParseCpuStatsError" -> InternalError(e.msg)

\* variant: the fatal flag is never set
IntoJudgeResponseNeverFatal(result, id) ==
    [id |-> id, is_fatal_error |-> FALSE, result |-> result]

\* variant: the response does not take the id it is given
IntoJudgeResponseFixedId(result, id) ==
    [id |-> 1, is_fatal_error |-> result.tag = "InternalError", result |-> result]

\* JudgeResult::into_judge_response; is_fatal_error is Some(..) on every path
IntoJudgeResponse(result, id) ==
    [id |-> id, is_fatal_error |-> result.tag = "InternalError", result |-> result]

(***************************************************************************)
(* CpuStats::from_str, utils.rs.  A key or any other word of letters is one *)
(* symbol of the text; digits, signs and white space are symbols of their   *)
(* own, so a token is the run of symbols between white space.               *)
(***************************************************************************)
Digits == <<"0", "1", "2", "3", "4", "5", "6", "7", "8", "9">>
DigitChars == {Digits[i] : i \in 1..10}
DigitValue(c) == (CHOOSE i \in 1..10 : Digits[i] = c) - 1

\* how the kernel writes a number
RECURSIVE Decimal(_)
Decimal(n) ==
    IF n < 10 THEN <<Digits[n + 1]>>
    ELSE Decimal(n \div 10) \o <<Digits[(n % 10) + 1]>>

\* parse::<u64>() on the digits left after the sign: a checked multiply and add per digit
RECURSIVE ParseDigits(_, _)
ParseDigits(acc, s) ==
    IF s = <<>> THEN Ok(acc)
    ELSE IF Head(s) \notin DigitChars THEN Err("InvalidDigit")
    ELSE IF acc * 10 + DigitValue(Head(s)) > U64_MAX THEN Err("PosOverflow")
    ELSE ParseDigits(acc * 10 + DigitValue(Head(s)), Tail(s))

\* str::parse::<u64>: an optional "+", then at least one digit, nothing else
ParseU64(token) ==
    IF token = <<>> THEN Err("Empty")
    ELSE LET digits == IF Head(token) = "+" THEN Tail(token) ELSE token
         IN  IF digits = <<>> THEN Err("InvalidDigit") ELSE ParseDigits(0, digits)

\* str::lines: the text is cut after each "\n"; a line loses its "\n" and then a "\r"
\* before it; no line follows the last "\n"
RECURSIVE Lines(_)
Lines(s) ==
    IF s = <<>> THEN <<>>
    ELSE IF \E i \in 1..Len(s) : s[i] = "\n"
    THEN LET n == CHOOSE i \in 1..Len(s) : s[i] = "\n" /\ \A j \in 1..(i - 1) : s[j] # "\n"
             line == SubSeq(s, 1, n - 1)
         IN  <<IF line # <<>> /\ line[Len(line)] = "\r"
               THEN SubSeq(line, 1, Len(line) - 1)
               ELSE line>>
             \o Lines(SubSeq(s, n + 1, Len(s)))
    ELSE <<s>>

\* str::split_whitespace: the maximal runs of characters that are not White_Space
RECURSIVE SplitWhitespace(_)
SplitWhitespace(s) ==
    LET t == TrimStart(s)
    IN  IF t = <<>> THEN <<>>
        ELSE LET n == IF \E i \in 1..Len(t) : t[i] \in WhiteSpace
                      THEN (CHOOSE i \in 1..Len(t) :
                                /\ t[i] \in WhiteSpace
                                /\ \A j \in 1..(i - 1) : t[j] \notin WhiteSpace) - 1
                      ELSE Len(t)
             IN  <<SubSeq(t, 1, n)>> \o SplitWhitespace(SubSeq(t, n + 1, Len(t)))

\* ParseCpuStatsError
InvalidNumber(token) == [kind |-> "InvalidNumber", arg |-> token]
InvalidRow(line) == [kind |-> "InvalidRow", arg |-> line]
MissingImportantField(key) == [kind |-> "MissingImportantField", arg |-> <<key>>]

\* HashMap::insert: the value of a key that is already there is replaced
Insert(stats, key, value) ==
    [k \in DOMAIN stats \cup {key} |-> IF k = key THEN value ELSE stats[k]]

\* variant: a line that does not have two tokens is skipped
RECURSIVE ParseRowsSkipsRows(_, _)
ParseRowsSkipsRows(lines, stats) ==
    IF lines = <<>> THEN Ok(stats)
    ELSE LET line == Head(lines)
             parts == SplitWhitespace(line)
         IN  IF Len(parts) # 2 THEN ParseRowsSkipsRows(Tail(lines), stats)
             ELSE LET value == ParseU64(parts[2])
                  IN  IF ~value.ok THEN Err(InvalidNumber(parts[2]))
                      ELSE ParseRowsSkipsRows(Tail(lines),
                                              Insert(stats, parts[1], value.val))

\* utils.rs 17-27: the loop over the lines, which returns at the first line it rejects
RECURSIVE ParseRows(_, _)
ParseRows(lines, stats) ==
    IF lines = <<>> THEN Ok(stats)
    ELSE LET line == Head(lines)
             parts == SplitWhitespace(line)
         IN  IF Len(parts) # 2 THEN Err(InvalidRow(line))
             ELSE LET value == ParseU64(parts[2])
                  IN  IF ~value.ok THEN Err(InvalidNumber(parts[2]))
                      ELSE ParseRows(Tail(lines), Insert(stats, parts[1], value.val))

\* utils.rs 14-44
CpuStatsFromStr(s) ==
    LET rows == ParseRows(Lines(s), [k \in {} |-> 0])
    IN  IF ~rows.ok THEN rows
        ELSE IF <<"usage_usec">> \notin DOMAIN rows.val
        THEN Err(MissingImportantField("usage_usec"))
        ELSE IF <<"user_usec">> \notin DOMAIN rows.val
        THEN Err(MissingImportantField("user_usec"))
        ELSE IF <<"system_usec">> \notin DOMAIN rows.val
        THEN Err(MissingImportantField("system_usec"))
        ELSE Ok([usage_usec |-> rows.val[<<"usage_usec">>],
                 user_usec |-> rows.val[<<"user_usec">>],
                 system_usec |-> rows.val[<<"system_usec">>]])

(***************************************************************************)
(* State                                                                   *)
(***************************************************************************)
VARIABLES
    main_pc,          \* main: "connect", "receive", "await" (handle.await), "exited"
    exit_code,        \* process exit status once main_pc = "exited", else -1
    exit_reason,      \* why the process ended: "fatal" (process::exit(1)) or the AgentError
    nread,            \* request frames read from the stream so far
    nwritten,         \* response frames written to the stream so far
    last_frame,       \* the response frame written since a frame was last read
    request,          \* the request being judged, NoRequest outside a judgment
    task,             \* position of the spawned Engine::judge task
    ctx,              \* ExecutionContext returned by prepare, NoContext before
    case_idx,         \* index in request.test_cases of the test being run
    max_cpu_time_ms,  \* engine.rs locals
    max_real_time_ms,
    max_memory_kib,
    retries,          \* delays of the retry strategy already used by cleanup
    result,           \* engine.rs local: what handler.execute returned for this test
    response,         \* value Engine::judge returned, NoResponse before
    fs,               \* entries that exist of the working directory of this judgment
    leaked_dirs,      \* working directories that finished judgments left behind
    cgroups,          \* cgroups that exist in the guest's cgroup tree
    exec_calls,       \* indexes of the tests handler.execute was called for, this judgment
    exec_results,     \* what each finished handler.execute call returned, this judgment
    cleanup_calls,    \* attempts of handler.cleanup's removal sequence, this judgment
    compile_result,   \* what the compiler did and what handler.compile returned, this judgment
    cpu_stat,         \* the cpu.stat text parsed last, and what CpuStats::from_str returned
    need_compile,     \* engine.rs local: what handler.needs_compile() returned
    child,            \* the child process of the latest compile or execute call
    exec_steps,       \* the steps the latest handler.execute call has taken, in order
    exec_run,         \* what the program and the kernel did in the latest execute call
    seccomp,          \* the seccomp filter of the agent, of the compiler and of the program
    stream,           \* a byte stream: the bytes written and not yet read, and its end
    sent,             \* payloads send_data has written in full to the stream
    received,         \* what the receive_data calls on the stream returned, in order
    plain,            \* a value given to postcard::to_allocvec
    encoded,          \* the bytes to_allocvec returned for it
    decoded,          \* what postcard::from_bytes returned for these bytes
    firecracker       \* a Firecracker wrapper, the processes it spawned, its latest call

main_vars == <<main_pc, exit_code, exit_reason, nread, nwritten, last_frame>>
engine_vars == <<request, task, ctx, case_idx, max_cpu_time_ms, max_real_time_ms,
                 max_memory_kib, retries, result, response, need_compile>>
env_vars == <<fs, leaked_dirs, cgroups>>
log_vars == <<exec_calls, exec_results, cleanup_calls, compile_result, cpu_stat>>
handler_vars == <<child, exec_steps, exec_run, seccomp>>
wire_vars == <<stream, sent, received, plain, encoded, decoded>>
lib_vars == <<wire_vars, firecracker>>
vars == <<main_vars, engine_vars, env_vars, log_vars, handler_vars, lib_vars>>

DIR == "work_dir"
SOURCE_FILE == "input.cpp"
EXECUTABLE_FILE == "output.executable"

\* no child was spawned; no run was observed
NoChild == "none"
NoRun == [wait |-> "none"]

\* firecracker.rs 33-41, FirecrackerConfig::default()
DefaultConfig ==
    [boot_source |-> None, machine_config |-> None, drives |-> <<>>, networks |-> <<>>,
     pmems |-> <<>>, vsock |-> None, balloon |-> None]

\* firecracker.rs 56-66, Firecracker::new: the wrapper's fields client, process, state,
\* config and instance_info; with them the Firecracker processes the wrapper has spawned
\* that are alive (procs, numbered in the order of their spawning), the method called
\* last and what it returned (call, ret; tick changes at every call), what that call did
\* besides (the configuration requests Firecracker accepted in it, what became of its
\* SendCtrlAltDel request and of its kill), and whether the wrapper has been dropped
New ==
    [client |-> None, process |-> None, state |-> "NotStarted", config |-> DefaultConfig,
     instance_info |-> None,
     procs |-> {}, spawned |-> 0, puts |-> <<>>,
     call |-> "new", ret |-> NoResult, tick |-> FALSE,
     ctrl_alt_del |-> "none", kill |-> "none", dropped |-> FALSE]

\* an open stream with nothing in flight
EmptyStream == [bytes |-> <<>>, eof |-> FALSE]

\* the stream and the codec are not in use
LibInit ==
    /\ stream = EmptyStream
    /\ sent = <<>>
    /\ received = <<>>
    /\ plain = NoResult
    /\ encoded = NoResult
    /\ decoded = NoResult
    /\ firecracker = New

\* the agent process has started and has not connected yet
AgentInit ==
    /\ main_pc = "connect"
    /\ exit_code = -1
    /\ exit_reason = "running"
    /\ nread = 0
    /\ nwritten = 0
    /\ last_frame = NoResponse
    /\ request = NoRequest
    /\ task = "idle"
    /\ ctx = NoContext
    /\ case_idx = 0
    /\ max_cpu_time_ms = 0
    /\ max_real_time_ms = 0
    /\ max_memory_kib = 0
    /\ retries = 0
    /\ result = NoResult
    /\ response = NoResponse
    /\ fs = {}
    /\ leaked_dirs = 0
    /\ cgroups = {}
    /\ exec_calls = <<>>
    /\ exec_results = <<>>
    /\ cleanup_calls = 0
    /\ compile_result = NoCompile
    /\ cpu_stat = NoCpuStat
    /\ need_compile = FALSE
    /\ child = NoChild
    /\ exec_steps = <<>>
    /\ exec_run = NoRun
    /\ seccomp = NoFilters

Init == AgentInit /\ LibInit

(***************************************************************************)
(* Agent loop, main.rs                                                     *)
(***************************************************************************)
\* main returns Err(AgentError): the runtime reports it and the process ends with status 1
MainReturnsErr(reason) ==
    /\ main_pc' = "exited"
    /\ exit_code' = 1
    /\ exit_reason' = reason

\* VsockStream::connect(addr).await?
Connect ==
    /\ main_pc = "connect"
    /\ \/ /\ main_pc' = "receive"
          /\ UNCHANGED <<exit_code, exit_reason>>
       \/ MainReturnsErr("Io")
    /\ UNCHANGED <<nread, nwritten, last_frame, engine_vars, env_vars, log_vars>>
    /\ UNCHANGED <<handler_vars, lib_vars>>

\* receive_data(&mut stream).await? fails: the host closed the stream or the read failed
ReceiveFails ==
    /\ main_pc = "receive"
    /\ MainReturnsErr("Io")
    /\ UNCHANGED <<nread, nwritten, last_frame, engine_vars, env_vars, log_vars>>
    /\ UNCHANGED <<handler_vars, lib_vars>>

\* a frame is read but postcard::from_bytes::<JudgeRequest>(&data)? fails
DecodeFails ==
    /\ main_pc = "receive"
    /\ nread < MaxRequests
    /\ nread' = nread + 1
    /\ last_frame' = NoResponse
    /\ MainReturnsErr("Postcard")
    /\ UNCHANGED <<nwritten, engine_vars, env_vars, log_vars>>
    /\ UNCHANGED <<handler_vars, lib_vars>>

\* variant: the spawned task is not awaited, main goes straight back to the read
ReceiveWithoutAwait ==
    /\ main_pc = "receive"
    /\ nread < MaxRequests
    /\ \E r \in JudgeRequest :
          /\ request' = r
          /\ r.language = "Cpp"
    /\ nread' = nread + 1
    /\ last_frame' = NoResponse
    /\ main_pc' = "receive"
    /\ task' = "prepare"
    /\ UNCHANGED <<exit_code, exit_reason, nwritten, ctx, case_idx, max_cpu_time_ms,
                   max_real_time_ms, max_memory_kib, retries, result, response, env_vars,
                   log_vars>>
    /\ UNCHANGED <<need_compile, handler_vars, lib_vars>>

\* a frame is read and decoded into one of `requests`; tokio::spawn of the judging task;
\* main goes on to handle.await
ReceiveFrom(requests) ==
    /\ main_pc = "receive"
    /\ nread < MaxRequests
    /\ \E r \in requests :
          /\ request' = r
          /\ r.language = "Cpp"
    /\ nread' = nread + 1
    /\ last_frame' = NoResponse
    /\ main_pc' = "await"
    /\ task' = "prepare"
    /\ UNCHANGED <<exit_code, exit_reason, nwritten, ctx, case_idx, max_cpu_time_ms,
                   max_real_time_ms, max_memory_kib, retries, result, response, env_vars,
                   log_vars>>
    /\ UNCHANGED <<need_compile, handler_vars, lib_vars>>

Receive == ReceiveFrom(JudgeRequest)

\* handle.await? yields the response: the task is over and its locals are gone; what is
\* left of its directory stays behind
Joined ==
    /\ task' = "idle"
    /\ ctx' = NoContext
    /\ case_idx' = 0
    /\ max_cpu_time_ms' = 0
    /\ max_real_time_ms' = 0
    /\ max_memory_kib' = 0
    /\ retries' = 0
    /\ result' = NoResult
    /\ response' = NoResponse
    /\ exec_calls' = <<>>
    /\ exec_results' = <<>>
    /\ cleanup_calls' = 0
    /\ compile_result' = NoCompile
    /\ cpu_stat' = NoCpuStat
    /\ fs' = {}
    /\ leaked_dirs' = IF fs # {} THEN leaked_dirs + 1 ELSE leaked_dirs
    /\ need_compile' = FALSE
    /\ child' = NoChild
    /\ exec_steps' = <<>>
    /\ exec_run' = NoRun
    /\ seccomp' = [NoFilters EXCEPT !.agent = seccomp.agent]

\* main.rs 38: handle.await? when the judging task has panicked: the JoinError ends main
JoinFails ==
    /\ main_pc = "await"
    /\ task = "panicked"
    /\ MainReturnsErr("Join")
    /\ Joined
    /\ UNCHANGED <<nread, nwritten, last_frame, request, cgroups>>
    /\ UNCHANGED lib_vars

\* handle.await? has the response; postcard::to_allocvec or send_data(..).await? fails
SendFails ==
    /\ main_pc = "await"
    /\ task = "returned"
    /\ MainReturnsErr("Io")
    /\ Joined
    /\ UNCHANGED <<nread, nwritten, last_frame, request, cgroups>>
    /\ UNCHANGED lib_vars

\* variant: the loop goes on after a fatal response too
SendWithoutExit ==
    /\ main_pc = "await"
    /\ task = "returned"
    /\ nwritten' = nwritten + 1
    /\ last_frame' = response
    /\ main_pc' = "receive"
    /\ UNCHANGED <<exit_code, exit_reason>>
    /\ Joined
    /\ UNCHANGED <<nread, request, cgroups>>
    /\ UNCHANGED lib_vars

\* handle.await? has the response; it is encoded and written as one frame; on a fatal
\* response std::process::exit(1), otherwise the loop goes back to receive_data
Send ==
    /\ main_pc = "await"
    /\ task = "returned"
    /\ nwritten' = nwritten + 1
    /\ last_frame' = response
    /\ IF response.is_fatal_error
       THEN /\ main_pc' = "exited"
            /\ exit_code' = 1
            /\ exit_reason' = "fatal"
       ELSE /\ main_pc' = "receive"
            /\ UNCHANGED <<exit_code, exit_reason>>
    /\ Joined
    /\ UNCHANGED <<nread, request, cgroups>>
    /\ UNCHANGED lib_vars

(***************************************************************************)
(* Engine::judge, engine.rs.  Each operator below is the code that runs    *)
(* when a handler call returns `res`, up to the next handler call.         *)
(***************************************************************************)
\* return v.into_judge_response(request_id), v a JudgeResult, request_id = request.id
\* (engine.rs 13)
Return(verdict) ==
    /\ response' = IntoJudgeResponse(verdict, request.id)
    /\ task' = "returned"

\* variant: the loop body runs once before the list is looked at
NextCaseAtLeastOnce(i) ==
    IF i <= Len(request.test_cases) \/ i = 1
    THEN /\ case_idx' = i
         /\ task' = "execute"
    ELSE /\ case_idx' = case_idx
         /\ task' = "cleanup"

\* engine.rs 50: the for loop takes the next test case, or falls through to cleanup
NextCase(i) ==
    IF i <= Len(request.test_cases)
    THEN /\ case_idx' = i
         /\ task' = "execute"
    ELSE /\ case_idx' = case_idx
         /\ task' = "cleanup"

\* variant: the compile step does not depend on what needs_compile() returned
AfterPrepareAlwaysCompiles(res, needs_compile) ==
    /\ need_compile' = needs_compile
    /\ IF ~res.ok
       THEN /\ Return(FromHandlerError(res.err))
            /\ UNCHANGED <<ctx, case_idx>>
       ELSE /\ ctx' = res.val
            /\ task' = "compile"
            /\ UNCHANGED <<case_idx, response>>

\* engine.rs 14-24: need_compile = handler.needs_compile(), match handler.prepare(..).await
AfterPrepare(res, needs_compile) ==
    /\ need_compile' = needs_compile
    /\ IF ~res.ok
       THEN /\ Return(FromHandlerError(res.err))
            /\ UNCHANGED <<ctx, case_idx>>
       ELSE /\ ctx' = res.val
            /\ IF needs_compile
               THEN /\ task' = "compile"
                    /\ UNCHANGED case_idx
               ELSE NextCase(1)
            /\ UNCHANGED response

\* variant: the compiler's exit status is not looked at
AfterCompileIgnoresStatus(res) ==
    IF ~res.ok
    THEN /\ Return(FromHandlerError(res.err))
         /\ UNCHANGED case_idx
    ELSE /\ NextCase(1)
         /\ UNCHANGED response

\* engine.rs 25-48: match handler.compile(..).await, info.unwrap(), the exit status.
\* compile returns Ok(None) or Ok(Some(info)); a CompileInfo here stands for Some(info).
\* unwrap() of None panics: the judging task ends without a value
AfterCompile(res) ==
    IF ~res.ok
    THEN /\ Return(FromHandlerError(res.err))
         /\ UNCHANGED case_idx
    ELSE IF res.val = None
    THEN /\ task' = "panicked"
         /\ UNCHANGED <<case_idx, response>>
    ELSE IF ~res.val.success
    THEN /\ Return(CompilationError(FormatOutput(res.val.stdout, res.val.stderr)))
         /\ UNCHANGED case_idx
    ELSE /\ NextCase(1)
         /\ UNCHANGED response

\* variant: the memory check comes before the time check
CheckResultMemoryFirst(info, case, limits) ==
    IF info.resource_usage.memory_kib > limits.memory_kib
    THEN MemoryLimitExceeded
    ELSE IF info.resource_usage.cpu_time_ms > limits.time_ms
    THEN TimeLimitExceeded
    ELSE IF ~info.success
    THEN RuntimeError(FormatOutput(info.stdout, info.stderr), "Non-zero exit code")
    ELSE IF Trim(case.expected_output) # Trim(info.stdout)
    THEN WrongAnswer(Trim(case.expected_output), Trim(info.stdout))
    ELSE [tag |-> "pass"]

\* variant: the time check lets a run one unit over the limit through
CheckResultLooseTime(info, case, limits) ==
    IF info.resource_usage.cpu_time_ms > limits.time_ms + 1
    THEN TimeLimitExceeded
    ELSE IF info.resource_usage.memory_kib > limits.memory_kib
    THEN MemoryLimitExceeded
    ELSE IF ~info.success
    THEN RuntimeError(FormatOutput(info.stdout, info.stderr), "Non-zero exit code")
    ELSE IF Trim(case.expected_output) # Trim(info.stdout)
    THEN WrongAnswer(Trim(case.expected_output), Trim(info.stdout))
    ELSE [tag |-> "pass"]

\* variant: a program that printed nothing is treated like one that exited with a failure
CheckResultSilentIsRuntimeError(info, case, limits) ==
    IF info.resource_usage.cpu_time_ms > limits.time_ms
    THEN TimeLimitExceeded
    ELSE IF info.resource_usage.memory_kib > limits.memory_kib
    THEN MemoryLimitExceeded
    ELSE IF ~info.success \/ info.stdout = <<>>
    THEN RuntimeError(FormatOutput(info.stdout, info.stderr), "Non-zero exit code")
    ELSE IF Trim(case.expected_output) # Trim(info.stdout)
    THEN WrongAnswer(Trim(case.expected_output), Trim(info.stdout))
    ELSE [tag |-> "pass"]

\* engine.rs 71-103: the verdict of one ExecuteInfo, "pass" if no check matches
CheckResult(info, case, limits) ==
    IF info.resource_usage.cpu_time_ms > limits.time_ms
    THEN TimeLimitExceeded
    ELSE IF info.resource_usage.memory_kib > limits.memory_kib
    THEN MemoryLimitExceeded
    ELSE IF ~info.success
    THEN RuntimeError(FormatOutput(info.stdout, info.stderr), "Non-zero exit code")
    ELSE IF Trim(case.expected_output) # Trim(info.stdout)
    THEN WrongAnswer(Trim(case.expected_output), Trim(info.stdout))
    ELSE [tag |-> "pass"]

\* variant: the maxima take the values of the test run last
AfterExecuteLastWins(res) ==
    IF ~res.ok
    THEN /\ Return(FromHandlerError(res.err))
         /\ UNCHANGED <<case_idx, max_cpu_time_ms, max_real_time_ms, max_memory_kib>>
    ELSE LET verdict == CheckResult(res.val, request.test_cases[case_idx], request.limits)
         IN  IF verdict.tag # "pass"
             THEN /\ Return(verdict)
                  /\ UNCHANGED <<case_idx, max_cpu_time_ms, max_real_time_ms, max_memory_kib>>
             ELSE /\ max_cpu_time_ms' = res.val.resource_usage.cpu_time_ms
                  /\ max_real_time_ms' = res.val.resource_usage.real_time_ms
                  /\ max_memory_kib' = res.val.resource_usage.memory_kib
                  /\ NextCase(case_idx + 1)
                  /\ UNCHANGED response

\* variant: a wrong answer does not end the loop, the remaining tests still run
AfterExecuteGoesOn(res) ==
    IF ~res.ok
    THEN /\ Return(FromHandlerError(res.err))
         /\ UNCHANGED <<case_idx, max_cpu_time_ms, max_real_time_ms, max_memory_kib>>
    ELSE LET verdict == CheckResult(res.val, request.test_cases[case_idx], request.limits)
         IN  IF verdict.tag \notin {"pass", "WrongAnswer"}
             THEN /\ Return(verdict)
                  /\ UNCHANGED <<case_idx, max_cpu_time_ms, max_real_time_ms, max_memory_kib>>
             ELSE /\ max_cpu_time_ms' =
                         Max(max_cpu_time_ms, res.val.resource_usage.cpu_time_ms)
                  /\ max_real_time_ms' =
                         Max(max_real_time_ms, res.val.resource_usage.real_time_ms)
                  /\ max_memory_kib' =
                         Max(max_memory_kib, res.val.resource_usage.memory_kib)
                  /\ NextCase(case_idx + 1)
                  /\ UNCHANGED response

\* engine.rs 64-109: match on what handler.execute returned, the checks, the maxima, the
\* next test
AfterExecute(res) ==
    IF ~res.ok
    THEN /\ Return(FromHandlerError(res.err))
         /\ UNCHANGED <<case_idx, max_cpu_time_ms, max_real_time_ms, max_memory_kib>>
    ELSE LET verdict == CheckResult(res.val, request.test_cases[case_idx], request.limits)
         IN  IF verdict.tag # "pass"
             THEN /\ Return(verdict)
                  /\ UNCHANGED <<case_idx, max_cpu_time_ms, max_real_time_ms, max_memory_kib>>
             ELSE /\ max_cpu_time_ms' =
                         Max(max_cpu_time_ms, res.val.resource_usage.cpu_time_ms)
                  /\ max_real_time_ms' =
                         Max(max_real_time_ms, res.val.resource_usage.real_time_ms)
                  /\ max_memory_kib' =
                         Max(max_memory_kib, res.val.resource_usage.memory_kib)
                  /\ NextCase(case_idx + 1)
                  /\ UNCHANGED response

\* variant: what cleanup returned is dropped
AfterCleanupIgnoresError(res) ==
    Return(Accepted(max_cpu_time_ms, max_real_time_ms, max_memory_kib))

\* engine.rs 111-121: if let Err(e) = handler.cleanup(&ctx).await, else Accepted
AfterCleanup(res) ==
    IF ~res.ok
    THEN Return(FromHandlerError(res.err))
    ELSE Return(Accepted(max_cpu_time_ms, max_real_time_ms, max_memory_kib))

(***************************************************************************)
(* CppHandler, handler/cpp.rs.  The pure operators compute what a call     *)
(* returns and what it leaves behind from what the environment did.        *)
(***************************************************************************)
\* the cgroup judge-cpp-<kind>-<pid>; the pid is that of the child spawned for test idx
\* (0 for the compiler) of the request numbered req
CgroupOf(kind, req, idx) == [kind |-> kind, req |-> req, idx |-> idx]

\* cpp.rs 32-34
NeedsCompile == TRUE

\* cpp.rs 36-54: tempdir()?.keep(), File::create_new(..).await?, write_all(..).await?
\* failure: "none" or the step that fails; d: the fresh directory
Prepare(failure, d) ==
    CASE failure = "tempdir" ->
            [res |-> Err(IoError("tempdir")), files |-> {}]
      [] failure = "create_new" ->
            [res |-> Err(IoError("create_new")), files |-> {DIR}]
      [] failure = "write_all" ->
            [res |-> Err(IoError("write_all")), files |-> {DIR, SOURCE_FILE}]
      [] OTHER ->
            [res |-> Ok([work_dir |-> d]), files |-> {DIR, SOURCE_FILE}]

CppPrepare ==
    /\ task = "prepare"
    /\ \E failure \in {"none", "tempdir", "create_new", "write_all"} :
          LET p == Prepare(failure, nread)
          IN  /\ fs' = p.files
              /\ AfterPrepare(p.res, NeedsCompile)
    /\ UNCHANGED <<main_vars, request, max_cpu_time_ms, max_real_time_ms, max_memory_kib,
                   retries, result, leaked_dirs, cgroups, log_vars>>
    /\ UNCHANGED <<handler_vars, lib_vars>>

\* cpp.rs 62-86 and 132-160: spawn()?, cmd.id(), CgroupBuilder..build(hier)?, cg.add_task(..)?
\* up to the first suspension point; failure: "none" or the step that fails
\* (cmd.id() is None only for a child already waited for, which a fresh child is not)
\* steps: the steps taken, the failing one included.  A child that was spawned runs on when
\* the function returns early: dropping the handle does not end it.
Spawn(failure, cg) ==
    CASE failure = "spawn" ->
            [res |-> Err(IoError("spawn")), created |-> {}, child |-> NoChild,
             steps |-> <<"spawn">>]
      [] failure = "overflow" ->
            [res |-> Err(HandlerInternalError("panic")), created |-> {},
             child |-> "running", steps |-> <<"spawn">>]
      [] failure = "build" ->
            [res |-> Err(CgroupError("build")), created |-> {}, child |-> "running",
             steps |-> <<"spawn", "build">>]
      [] failure = "add_task" ->
            [res |-> Err(CgroupError("add_task")), created |-> {cg}, child |-> "running",
             steps |-> <<"spawn", "build", "add_task">>]
      [] OTHER ->
            [res |-> Ok(cg), created |-> {cg}, child |-> "running",
             steps |-> <<"spawn", "build", "add_task">>]

SpawnFailures == {"none", "spawn", "build", "add_task"}

\* fork: a child process starts with the seccomp filter of the agent
Forked(sec, spawned) == IF spawned = NoChild THEN "none" ELSE sec.agent

\* seccomp.rs 15-80: apply_basic_filter builds the filter and loads it into the process
\* `proc` that calls it; when a step fails nothing is loaded and the io::Error is returned
ApplyBasicFilter(sec, proc, load_ok) ==
    IF load_ok
    THEN [res |-> Ok("unit"), seccomp |-> [sec EXCEPT ![proc] = "Basic"]]
    ELSE [res |-> Err(IoError("seccomp")), seccomp |-> [sec EXCEPT !.load_failed = TRUE]]

\* variant: the filter is loaded by the agent before it spawns the program
SpawnFilteredByAgent(failure, cg, sec) ==
    LET applied == ApplyBasicFilter([sec EXCEPT !.load_failed = FALSE], "agent",
                                    failure # "seccomp")
    IN  IF ~applied.res.ok
        THEN [res |-> applied.res, created |-> {}, child |-> NoChild,
              steps |-> <<"spawn">>,
              seccomp |-> [applied.seccomp EXCEPT !.program = "none"]]
        ELSE LET sp == Spawn(failure, cg)
             IN  [res |-> sp.res, created |-> sp.created, child |-> sp.child,
                  steps |-> sp.steps,
                  seccomp |-> [applied.seccomp EXCEPT
                                  !.program = Forked(applied.seccomp, sp.child)]]

\* cpp.rs 132-139: Command::new(executable).pre_exec(|| apply_basic_filter()).spawn()?
\* then 141-154 as in Spawn.  The closure runs in the child after fork and before exec;
\* when it returns an error the child ends without exec and spawn returns that error.
\* failure "seccomp": the load of the filter fails; "spawn": fork or exec fails
SpawnFiltered(failure, cg, sec) ==
    LET forked == [sec EXCEPT !.program = sec.agent, !.load_failed = FALSE]
        applied == ApplyBasicFilter(forked, "program", failure # "seccomp")
    IN  IF failure = "spawn"
        THEN [res |-> Err(IoError("spawn")), created |-> {}, child |-> NoChild,
              steps |-> <<"spawn">>, seccomp |-> [forked EXCEPT !.program = "none"]]
        ELSE IF ~applied.res.ok
        THEN [res |-> applied.res, created |-> {}, child |-> NoChild,
              steps |-> <<"spawn">>,
              seccomp |-> [applied.seccomp EXCEPT !.program = "none"]]
        ELSE LET sp == Spawn(failure, cg)
             IN  [res |-> sp.res, created |-> sp.created, child |-> sp.child,
                  steps |-> sp.steps, seccomp |-> applied.seccomp]

\* cg.delete()? at one exit of compile or execute, after the steps `steps`: on failure the
\* error is returned and the cgroup is still there
DeleteThen(delete_ok, res, steps) ==
    IF delete_ok
    THEN [res |-> res, deleted |-> TRUE, steps |-> Append(steps, "delete")]
    ELSE [res |-> Err(CgroupError("delete")), deleted |-> FALSE,
          steps |-> Append(steps, "delete")]

\* the child once the timeout around wait_with_output is over: reaped if the wait returned
\* its output; if the deadline fired, the future that owns the handle is dropped, which
\* neither signals nor waits for the child; after an error of the wait its state is not known
ChildAfterWait(run) ==
    CASE run.wait = "exited" -> "reaped"
      [] run.wait = "timeout" -> "running"
      [] OTHER -> "unknown"

\* variant: the cgroup's failure counter is not looked at
CompileFinishIgnoresOom(run, delete_ok) ==
    IF run.wait = "timeout"
    THEN DeleteThen(delete_ok, Err(HandlerTimeLimitExceeded), <<"wait">>)
    ELSE IF run.wait = "io_error"
    THEN DeleteThen(delete_ok, Err(IoError("wait_with_output")), <<"wait">>)
    ELSE DeleteThen(delete_ok,
                    Ok([success |-> run.success, stdout |-> run.stdout,
                        stderr |-> run.stderr]),
                    <<"wait", "memory_stat">>)

\* cpp.rs 88-119: the timeout around wait_with_output, the OOM check, CompileInfo
\* run: what the compiler and the kernel did
CompileFinish(run, delete_ok) ==
    IF run.wait = "timeout"
    THEN DeleteThen(delete_ok, Err(HandlerTimeLimitExceeded), <<"wait">>)
    ELSE IF run.wait = "io_error"
    THEN DeleteThen(delete_ok, Err(IoError("wait_with_output")), <<"wait">>)
    ELSE IF run.fail_cnt > 0
    THEN DeleteThen(delete_ok, Err(HandlerMemoryLimitExceeded), <<"wait", "memory_stat">>)
    ELSE DeleteThen(delete_ok,
                    Ok([success |-> run.success, stdout |-> run.stdout,
                        stderr |-> run.stderr]),
                    <<"wait", "memory_stat">>)

CompilerRuns ==
    {[wait |-> w] : w \in {"timeout", "io_error"}}
    \cup [wait : {"exited"}, fail_cnt : {1}, success : BOOLEAN, stdout : {<<>>},
          stderr : {<<>>}]
    \cup [wait : {"exited"}, fail_cnt : {0}, success : BOOLEAN, stdout : {<<>>},
          stderr : Stderrs]

\* what the log keeps of a handler.compile call: how the compiler ended ("success" or
\* "failure"; "timeout" or "io_error" if the wait ended otherwise; "none" if the wait was
\* not reached), whether the cgroup's failure counter was non-zero, and whether compile
\* returned Ok
CompileLogged(exit, oom, res) ==
    [called |-> TRUE, exit |-> exit, oom |-> oom, ok |-> res.ok]

CppCompileSpawn ==
    /\ task = "compile"
    /\ \E failure \in SpawnFailures :
          LET sp == Spawn(failure, CgroupOf("compile", nread, 0))
          IN  /\ cgroups' = cgroups \cup sp.created
              /\ child' = sp.child
              /\ seccomp' = [seccomp EXCEPT !.compiler = Forked(seccomp, sp.child)]
              /\ IF sp.res.ok
                 THEN /\ task' = "compile_wait"
                      /\ UNCHANGED <<case_idx, response, compile_result>>
                 ELSE /\ compile_result' = CompileLogged("none", FALSE, sp.res)
                      /\ AfterCompile(sp.res)
    /\ UNCHANGED <<main_vars, request, ctx, max_cpu_time_ms, max_real_time_ms,
                   max_memory_kib, retries, result, fs, leaked_dirs, exec_calls,
                   exec_results, cleanup_calls, cpu_stat>>
    /\ UNCHANGED <<need_compile, exec_steps, exec_run, lib_vars>>

\* g++ writes output.executable when it exits with success
CppCompileWait ==
    /\ task = "compile_wait"
    /\ \E run \in CompilerRuns, delete_ok \in BOOLEAN :
          LET fin == CompileFinish(run, delete_ok)
              cg == CgroupOf("compile", nread, 0)
          IN  /\ cgroups' = IF fin.deleted THEN cgroups \ {cg} ELSE cgroups
              /\ child' = ChildAfterWait(run)
              /\ fs' = IF run.wait = "exited" /\ run.success
                       THEN fs \cup {EXECUTABLE_FILE}
                       ELSE fs
              /\ compile_result' =
                    IF run.wait = "exited"
                    THEN CompileLogged(IF run.success THEN "success" ELSE "failure",
                                       run.fail_cnt > 0, fin.res)
                    ELSE CompileLogged(run.wait, FALSE, fin.res)
              /\ AfterCompile(fin.res)
    /\ UNCHANGED <<main_vars, request, ctx, max_cpu_time_ms, max_real_time_ms,
                   max_memory_kib, retries, result, leaked_dirs, exec_calls, exec_results,
                   cleanup_calls, cpu_stat>>
    /\ UNCHANGED <<need_compile, exec_steps, exec_run, seccomp, lib_vars>>

\* what the log keeps of a finished handler.execute call: whether it returned Ok, and then
\* the facts the Engine's checks look at
Logged(res, case) ==
    IF res.ok
    THEN [ok |-> TRUE,
          usage |-> res.val.resource_usage,
          success |-> res.val.success,
          output_ok |-> Trim(case.expected_output) = Trim(res.val.stdout)]
    ELSE [ok |-> FALSE]

\* engine.rs 51-52: the limits the Engine computes for one test
StdoutLimitBytes(case) == Len(case.expected_output) * 2
STDERR_LIMIT_BYTES == 131072

\* cpp.rs 151, 188: whether memory_limit_kib * 1024 leaves the u64 range
MulOverflows(memory_limit_kib) == memory_limit_kib * KIB >= WORD

\* cpp.rs 151, 188: memory_limit_kib * 1024 in u64.  A build without overflow checks
\* wraps; a build with overflow checks panics at 151 when MulOverflows
MemoryLimitBytes(memory_limit_kib) == (memory_limit_kib * KIB) % WORD

\* cpu.stat as the kernel writes it for a cgroup v2 hierarchy
CpuStatText(usage_usec) ==
    <<"usage_usec", " ">> \o Decimal(usage_usec) \o <<"\n">>
    \o <<"user_usec", " ">> \o Decimal(usage_usec) \o <<"\n">>
    \o <<"system_usec", " ", "0", "\n">>

\* what cpu_controller.cpu().stat holds: hierarchies::auto() may also pick a v1 hierarchy,
\* whose cpu.stat has no usage_usec
CpuStatReads ==
    {CpuStatText(u) : u \in UsageUsecs} \cup {<<"nr_periods", " ", "0", "\n">>}

\* CpuStats::from_str(&cpu) for each of these texts
CpuStats == [text \in CpuStatReads |-> CpuStatsFromStr(text)]

\* variant: a peak usage equal to the limit counts as a breach
MemoryBreachAtLimit(run, memory_limit_kib) ==
    \/ run.fail_cnt > 0
    \/ run.max_usage_in_bytes >= MemoryLimitBytes(memory_limit_kib)

\* cpp.rs 179-191: the cgroup's failure counter is non-zero, or its peak usage is above
\* the limit in bytes
MemoryBreach(run, memory_limit_kib) ==
    \/ run.fail_cnt > 0
    \/ run.max_usage_in_bytes > MemoryLimitBytes(memory_limit_kib)

\* cpp.rs 193-201: the two length checks count bytes; both test the one limit the
\* function is given
OutputBreach(run, output_limit_u8) ==
    \/ Len(run.stderr) > output_limit_u8
    \/ Len(run.stdout) > output_limit_u8

\* variant: the peak usage is rounded down to whole KiB
ExecuteInfoRoundsDown(run, cpu) ==
    [success |-> run.success,
     stdout |-> FromUtf8Lossy(run.stdout),
     stderr |-> FromUtf8Lossy(run.stderr),
     resource_usage |->
         [memory_kib |-> run.max_usage_in_bytes \div KIB,
          real_time_ms |-> run.real_time_ms,
          cpu_time_ms |-> cpu.usage_usec]]

\* cpp.rs 209-218; (memory + 1023) / 1024 in u64
ExecuteInfo(run, cpu) ==
    [success |-> run.success,
     stdout |-> FromUtf8Lossy(run.stdout),
     stderr |-> FromUtf8Lossy(run.stderr),
     resource_usage |->
         [memory_kib |-> ((run.max_usage_in_bytes + 1023) % WORD) \div KIB,
          real_time_ms |-> run.real_time_ms,
          cpu_time_ms |-> cpu.usage_usec]]

\* variant: the cgroup is deleted before cpu.stat is read
ExecuteFinishDeletesFirst(run, delete_ok, memory_limit_kib, output_limit_u8) ==
    IF run.wait = "timeout"
    THEN DeleteThen(delete_ok, Err(HandlerTimeLimitExceeded), <<"wait">>)
    ELSE IF run.wait = "io_error"
    THEN DeleteThen(delete_ok, Err(IoError("wait_with_output")), <<"wait">>)
    ELSE IF MemoryBreach(run, memory_limit_kib)
    THEN DeleteThen(delete_ok, Err(HandlerMemoryLimitExceeded), <<"wait", "memory_stat">>)
    ELSE IF OutputBreach(run, output_limit_u8)
    THEN DeleteThen(delete_ok, Err(HandlerOutputLimitExceeded), <<"wait", "memory_stat">>)
    ELSE LET cpu == CpuStats[run.cpu_stat]
         IN  IF ~delete_ok
             THEN DeleteThen(FALSE, Err(CgroupError("delete")), <<"wait", "memory_stat">>)
             ELSE IF ~cpu.ok
             THEN [res |-> Err(ParseCpuStatsError(cpu.err)), deleted |-> TRUE,
                   steps |-> <<"wait", "memory_stat", "delete", "cpu_stat">>]
             ELSE [res |-> Ok(ExecuteInfo(run, cpu.val)), deleted |-> TRUE,
                   steps |-> <<"wait", "memory_stat", "delete", "cpu_stat">>]

\* variant: the output lengths are checked before the memory
ExecuteFinishOutputFirst(run, delete_ok, memory_limit_kib, output_limit_u8) ==
    IF run.wait = "timeout"
    THEN DeleteThen(delete_ok, Err(HandlerTimeLimitExceeded), <<"wait">>)
    ELSE IF run.wait = "io_error"
    THEN DeleteThen(delete_ok, Err(IoError("wait_with_output")), <<"wait">>)
    ELSE IF run.fail_cnt = 0 /\ OutputBreach(run, output_limit_u8)
    THEN DeleteThen(delete_ok, Err(HandlerOutputLimitExceeded), <<"wait", "memory_stat">>)
    ELSE IF MemoryBreach(run, memory_limit_kib)
    THEN DeleteThen(delete_ok, Err(HandlerMemoryLimitExceeded), <<"wait", "memory_stat">>)
    ELSE LET cpu == CpuStats[run.cpu_stat]
         IN  IF ~cpu.ok
             THEN [res |-> Err(ParseCpuStatsError(cpu.err)), deleted |-> FALSE,
                   steps |-> <<"wait", "memory_stat", "cpu_stat">>]
             ELSE DeleteThen(delete_ok, Ok(ExecuteInfo(run, cpu.val)),
                             <<"wait", "memory_stat", "cpu_stat">>)

\* cpp.rs 163-218: the timeout around wait_with_output, the memory checks, the output
\* length checks, cpu.stat, ExecuteInfo.  run: what the program and the kernel did.
\* steps: the steps taken from the wait on, in order.
ExecuteFinish(run, delete_ok, memory_limit_kib, output_limit_u8) ==
    IF run.wait = "timeout"
    THEN DeleteThen(delete_ok, Err(HandlerTimeLimitExceeded), <<"wait">>)
    ELSE IF run.wait = "io_error"
    THEN DeleteThen(delete_ok, Err(IoError("wait_with_output")), <<"wait">>)
    ELSE IF MemoryBreach(run, memory_limit_kib)
    THEN DeleteThen(delete_ok, Err(HandlerMemoryLimitExceeded), <<"wait", "memory_stat">>)
    ELSE IF OutputBreach(run, output_limit_u8)
    THEN DeleteThen(delete_ok, Err(HandlerOutputLimitExceeded), <<"wait", "memory_stat">>)
    ELSE LET cpu == CpuStats[run.cpu_stat]
         IN  IF ~cpu.ok
             THEN [res |-> Err(ParseCpuStatsError(cpu.err)), deleted |-> FALSE,
                   steps |-> <<"wait", "memory_stat", "cpu_stat">>]
             ELSE DeleteThen(delete_ok, Ok(ExecuteInfo(run, cpu.val)),
                             <<"wait", "memory_stat", "cpu_stat">>)

\* what the log keeps of a run: how the wait ended and, for a child that exited, the
\* numbers the checks of cpp.rs 179-201 read
RunLogged(run) ==
    IF run.wait # "exited" THEN [wait |-> run.wait]
    ELSE IF run.fail_cnt > 0 THEN [wait |-> "exited", fail_cnt |-> run.fail_cnt]
    ELSE [wait |-> "exited", fail_cnt |-> 0,
          max_usage_in_bytes |-> run.max_usage_in_bytes,
          stderr_len |-> Len(run.stderr), stdout_len |-> Len(run.stdout)]

\* whether this run gets as far as cpp.rs 203-204, where cpu.stat is read and parsed
ReadsCpuStat(run, memory_limit_kib, output_limit_u8) ==
    /\ run.wait = "exited"
    /\ ~MemoryBreach(run, memory_limit_kib)
    /\ ~OutputBreach(run, output_limit_u8)

ProgramRuns ==
    {[wait |-> w] : w \in {"timeout", "io_error"}}
    \cup {[wait |-> "exited", fail_cnt |-> 1]}
    \cup [wait : {"exited"}, fail_cnt : {0}, max_usage_in_bytes : MemoryUsages,
          success : BOOLEAN, stdout : Stdouts, stderr : Stderrs,
          cpu_stat : CpuStatReads, real_time_ms : RealTimesMs]

\* the runs of the program built from a source text: a "prints" program exits by itself
\* with the status, the stdout and the stderr its source says, whatever its input; a
\* "uses" program prints a and exits with success after a peak memory usage of the
\* number of bytes its source says
RunsOf(source_code) ==
    IF source_code.kind = "prints"
    THEN [wait : {"exited"}, fail_cnt : {0}, max_usage_in_bytes : MemoryUsages,
          success : {source_code.success}, stdout : {source_code.stdout},
          stderr : {source_code.stderr}, cpu_stat : CpuStatReads,
          real_time_ms : {1}]
    ELSE IF source_code.kind = "uses"
    THEN [wait : {"exited"}, fail_cnt : {0},
          max_usage_in_bytes : {source_code.max_usage_in_bytes},
          success : {TRUE}, stdout : {<<"a">>}, stderr : {<<>>},
          cpu_stat : {CpuStatText(0)}, real_time_ms : {1}]
    ELSE ProgramRuns

\* engine.rs 51-62 calls execute; cpp.rs 130-154 up to stdin.write_all(..).await
CppExecuteSpawn ==
    /\ task = "execute"
    /\ exec_calls' = Append(exec_calls, case_idx)
    /\ \E failure \in SpawnFailures \cup {"seccomp"}
                        \cup (IF MulOverflows(request.limits.memory_kib)
                              THEN {"overflow"} ELSE {}) :
          LET sp == SpawnFiltered(failure, CgroupOf("execute", nread, case_idx), seccomp)
          IN  /\ cgroups' = cgroups \cup sp.created
              /\ child' = sp.child
              /\ seccomp' = sp.seccomp
              /\ exec_steps' = sp.steps
              /\ IF failure = "overflow"
                 THEN /\ task' = "panicked"
                      /\ UNCHANGED <<case_idx, max_cpu_time_ms, max_real_time_ms,
                                     max_memory_kib, result, response, exec_results>>
                 ELSE IF sp.res.ok
                 THEN /\ task' = "execute_stdin"
                      /\ UNCHANGED <<case_idx, max_cpu_time_ms, max_real_time_ms,
                                     max_memory_kib, result, response, exec_results>>
                 ELSE /\ result' = sp.res
                      /\ exec_results' =
                            Append(exec_results,
                                   Logged(sp.res, request.test_cases[case_idx]))
                      /\ AfterExecute(sp.res)
    /\ exec_run' = NoRun
    /\ UNCHANGED <<main_vars, request, ctx, retries, fs, leaked_dirs, cleanup_calls,
                   compile_result, cpu_stat, need_compile, lib_vars>>

\* cpp.rs 160: write_all has written a part of input_data and waits for room in the pipe
StdinPending ==
    /\ task = "execute_stdin"
    /\ exec_steps # <<>>
    /\ exec_steps[Len(exec_steps)] = "stdin"

\* cpp.rs 160-161: write_all(..).await has returned; `?` on its error, else drop(stdin)
AfterWriteAll(written) ==
    IF written
    THEN /\ task' = "execute_wait"
         /\ UNCHANGED <<case_idx, max_cpu_time_ms, max_real_time_ms, max_memory_kib,
                        result, response, exec_results>>
    ELSE /\ result' = Err(IoError("write_all"))
         /\ exec_results' = Append(exec_results, [ok |-> FALSE])
         /\ AfterExecute(Err(IoError("write_all")))

\* cpp.rs 159-161: stdin.write_all(input_data.as_bytes()).await?, drop(stdin).  The pipe
\* takes the whole input, or the write fails (the program has closed its stdin), or the
\* pipe is full and the write waits for the program to read; no deadline covers the write
CppExecuteStdin ==
    /\ task = "execute_stdin"
    /\ ~StdinPending
    /\ exec_steps' = Append(exec_steps, "stdin")
    /\ \/ AfterWriteAll(TRUE)
       \/ AfterWriteAll(FALSE)
       \/ UNCHANGED <<task, case_idx, max_cpu_time_ms, max_real_time_ms, max_memory_kib,
                      result, response, exec_results>>
    /\ UNCHANGED <<main_vars, request, ctx, retries, env_vars, exec_calls, cleanup_calls,
                   compile_result, cpu_stat, need_compile, child, exec_run, seccomp,
                   lib_vars>>

\* the program reads what is in the pipe, or closes its stdin or exits, while write_all
\* is waiting: the write goes on to its end or fails
CppExecuteStdinResumes ==
    /\ StdinPending
    /\ \/ AfterWriteAll(TRUE)
       \/ AfterWriteAll(FALSE)
    /\ UNCHANGED <<main_vars, request, ctx, retries, env_vars, exec_calls, cleanup_calls,
                   compile_result, cpu_stat, need_compile, handler_vars, lib_vars>>

\* cpp.rs 163-218 once the wait is over, then engine.rs 64-109 on what execute returned.
\* result keeps the ExecuteInfo (or error) that ended the judgment; a test that passed
\* leaves nothing behind but the maxima.
CppExecuteWait ==
    /\ task = "execute_wait"
    /\ \E run \in RunsOf(request.source_code), delete_ok \in BOOLEAN :
          LET case == request.test_cases[case_idx]
              fin == ExecuteFinish(run, delete_ok, request.limits.memory_kib,
                                   StdoutLimitBytes(case))
              cg == CgroupOf("execute", nread, case_idx)
          IN  /\ cgroups' = IF fin.deleted THEN cgroups \ {cg} ELSE cgroups
              /\ child' = ChildAfterWait(run)
              /\ exec_steps' = exec_steps \o fin.steps
              /\ exec_run' = RunLogged(run)
              /\ exec_results' = Append(exec_results, Logged(fin.res, case))
              /\ cpu_stat' =
                    IF ReadsCpuStat(run, request.limits.memory_kib, StdoutLimitBytes(case))
                    THEN [text |-> run.cpu_stat, parsed |-> CpuStats[run.cpu_stat]]
                    ELSE cpu_stat
              /\ AfterExecute(fin.res)
              /\ result' = IF task' = "returned" THEN fin.res ELSE NoResult
    /\ UNCHANGED <<main_vars, request, ctx, retries, fs, leaked_dirs, exec_calls,
                   cleanup_calls, compile_result, need_compile, seccomp, lib_vars>>

\* cpp.rs 225-227: one run of the retried closure on the directory's entries;
\* fault: "none" or the removal the file system refuses this time
RemoveAll(files, fault) ==
    IF EXECUTABLE_FILE \notin files \/ fault = EXECUTABLE_FILE
    THEN [ok |-> FALSE, files |-> files]
    ELSE IF SOURCE_FILE \notin files \/ fault = SOURCE_FILE
    THEN [ok |-> FALSE, files |-> files \ {EXECUTABLE_FILE}]
    ELSE IF DIR \notin files \/ fault = DIR
    THEN [ok |-> FALSE, files |-> files \ {EXECUTABLE_FILE, SOURCE_FILE}]
    ELSE [ok |-> TRUE, files |-> {}]

\* cpp.rs 221-231: Retry::spawn runs the closure, and after a failure runs it again as long
\* as the strategy yields another delay; then engine.rs 111-121
CppCleanup ==
    /\ task = "cleanup"
    /\ cleanup_calls' = cleanup_calls + 1
    /\ \E fault \in {"none", EXECUTABLE_FILE, SOURCE_FILE, DIR} :
          LET attempt == RemoveAll(fs, fault)
          IN  /\ fs' = attempt.files
              /\ IF attempt.ok
                 THEN /\ AfterCleanup(Ok("unit"))
                      /\ UNCHANGED retries
                 ELSE IF retries < RETRY_DELAYS
                 THEN /\ retries' = retries + 1
                      /\ UNCHANGED <<task, response>>
                 ELSE /\ AfterCleanup(Err(IoError("remove")))
                      /\ UNCHANGED retries
    /\ UNCHANGED <<main_vars, request, ctx, case_idx, max_cpu_time_ms, max_real_time_ms,
                   max_memory_kib, result, leaked_dirs, cgroups, exec_calls, exec_results,
                   compile_result, cpu_stat>>
    /\ exec_run' = NoRun
    /\ UNCHANGED <<need_compile, child, exec_steps, seccomp, lib_vars>>

(***************************************************************************)
(* The agent                                                               *)
(***************************************************************************)
Next ==
    \/ Connect
    \/ ReceiveFails
    \/ DecodeFails
    \/ Receive
    \/ CppPrepare
    \/ CppCompileSpawn
    \/ CppCompileWait
    \/ CppExecuteSpawn
    \/ CppExecuteStdin
    \/ CppExecuteStdinResumes
    \/ CppExecuteWait
    \/ CppCleanup
    \/ SendFails
    \/ Send

Spec == Init /\ [][Next]_vars

\* the runtime polls the futures of execute: write_all makes its first attempt, and the
\* wait ends at the child's exit or when the timer of the timeout fires.  Nothing makes
\* the program read its stdin or exit.
SpecLive == Spec /\ WF_vars(CppExecuteStdin) /\ WF_vars(CppExecuteWait)

(***************************************************************************)
(* Engine::judge over the Handler trait (handler/mod.rs).  judge takes any   *)
(* `impl Handler`: here a handler call returns any value of its return type, *)
(* and judge is the same code as above.  compile returns Some(info) whenever *)
(* needs_compile() is true.                                                   *)
(***************************************************************************)
HandlerErrors ==
    {IoError("io"), CgroupError("cgroup"), ParseCpuStatsError("parse"),
     HandlerInternalError("internal"), HandlerTimeLimitExceeded,
     HandlerMemoryLimitExceeded, HandlerOutputLimitExceeded}

Errs == {Err(e) : e \in HandlerErrors}

\* memory_kib an ExecuteInfo may carry
MemoryKibs == {0, 1, 2}

ResourceUsages ==
    [memory_kib : MemoryKibs, real_time_ms : RealTimesMs, cpu_time_ms : UsageUsecs]

ExecuteInfos ==
    [success : BOOLEAN, stdout : Stdouts, stderr : Stderrs, resource_usage : ResourceUsages]

CompileInfos == [success : BOOLEAN, stdout : {<<>>}, stderr : Stderrs]

\* Handler::needs_compile and Handler::prepare
HandlerPrepare ==
    /\ task = "prepare"
    /\ \E needs_compile \in BOOLEAN, res \in {Ok([work_dir |-> nread])} \cup Errs :
          AfterPrepare(res, needs_compile)
    /\ UNCHANGED <<main_vars, request, max_cpu_time_ms, max_real_time_ms, max_memory_kib,
                   retries, result, env_vars, log_vars>>
    /\ UNCHANGED <<handler_vars, lib_vars>>

\* Handler::compile
HandlerCompile ==
    /\ task = "compile"
    /\ \E res \in {Ok(info) : info \in CompileInfos} \cup {Ok(None)} \cup Errs :
          /\ compile_result' =
                CompileLogged(IF ~res.ok \/ res.val = None THEN "none"
                              ELSE IF res.val.success THEN "success" ELSE "failure",
                              FALSE, res)
          /\ AfterCompile(res)
    /\ UNCHANGED <<main_vars, request, ctx, max_cpu_time_ms, max_real_time_ms,
                   max_memory_kib, retries, result, env_vars, exec_calls, exec_results,
                   cleanup_calls, cpu_stat>>
    /\ UNCHANGED <<need_compile, handler_vars, lib_vars>>

\* Handler::execute
HandlerExecute ==
    /\ task = "execute"
    /\ exec_calls' = Append(exec_calls, case_idx)
    /\ \E res \in {Ok(info) : info \in ExecuteInfos} \cup Errs :
          /\ exec_results' =
                Append(exec_results, Logged(res, request.test_cases[case_idx]))
          /\ AfterExecute(res)
          /\ result' = IF task' = "returned" THEN res ELSE NoResult
    /\ UNCHANGED <<main_vars, request, ctx, retries, env_vars, cleanup_calls,
                   compile_result, cpu_stat>>
    /\ UNCHANGED <<need_compile, handler_vars, lib_vars>>

\* Handler::cleanup
HandlerCleanup ==
    /\ task = "cleanup"
    /\ cleanup_calls' = cleanup_calls + 1
    /\ \E res \in {Ok("unit")} \cup Errs :
          AfterCleanup(res)
    /\ UNCHANGED <<main_vars, request, ctx, case_idx, max_cpu_time_ms, max_real_time_ms,
                   max_memory_kib, retries, result, env_vars, exec_calls, exec_results,
                   compile_result, cpu_stat>>
    /\ UNCHANGED <<need_compile, handler_vars, lib_vars>>

NextEngine ==
    \/ Connect
    \/ ReceiveFails
    \/ DecodeFails
    \/ Receive
    \/ HandlerPrepare
    \/ HandlerCompile
    \/ HandlerExecute
    \/ HandlerCleanup
    \/ JoinFails
    \/ SendFails
    \/ Send

SpecEngine == Init /\ [][NextEngine]_vars

(***************************************************************************)
(* One-test submissions of programs whose output is known.  The agent is    *)
(* the same; the requests are those of one test case, with expected outputs *)
(* and programs that differ in white space, length and exit status.         *)
(***************************************************************************)
TestExpectedOutputs == {<<>>, <<" ">>, <<"a">>, <<"a", "\n">>, <<"a", " ", "b">>}

\* bytes a program writes to its stdout
TestStdouts ==
    {<<>>, <<"\n">>, <<" ", "\n">>, <<"a">>, <<"a", "\n">>, <<" ", "a">>,
     <<"a", "\n", "\n">>, <<"a", "C2", "A0">>, <<"a", "b">>, <<"a", " ", "b">>,
     <<"a", " ", "b", "\n">>, <<"a", "a", "a">>}

Programs == [kind : {"prints"}, stdout : TestStdouts, stderr : Stderrs, success : BOOLEAN]

TestRequests ==
    [id : RequestIds, language : {"Cpp"}, source_code : Programs,
     test_cases : {<<c>> : c \in [input_data : InputDatas,
                                   expected_output : TestExpectedOutputs]},
     limits : ResourceLimits]

ReceiveTest == ReceiveFrom(TestRequests)

NextTests ==
    \/ Connect
    \/ ReceiveFails
    \/ DecodeFails
    \/ ReceiveTest
    \/ CppPrepare
    \/ CppCompileSpawn
    \/ CppCompileWait
    \/ CppExecuteSpawn
    \/ CppExecuteStdin
    \/ CppExecuteStdinResumes
    \/ CppExecuteWait
    \/ CppCleanup
    \/ SendFails
    \/ Send

SpecTests == Init /\ [][NextTests]_vars

(***************************************************************************)
(* The agent on requests whose memory limit takes values over the whole    *)
(* range of the u64, judged on programs of a known peak memory usage       *)
(***************************************************************************)
WideMemoryLimitsKib == {1, 63, 64, 65, 127, WORD - 1}
WideMemoryUsages ==
    {0, 1, KIB, KIB + 1, 63 * KIB, 63 * KIB + 1, WORD - KIB, WORD - KIB + 1, WORD - 1}

WideRequests ==
    [id : RequestIds, language : {"Cpp"},
     source_code : [kind : {"uses"}, max_usage_in_bytes : WideMemoryUsages],
     test_cases : {<<c>> : c \in TestCase},
     limits : [time_ms : TimeLimitsMs, memory_kib : WideMemoryLimitsKib]]

ReceiveWide == ReceiveFrom(WideRequests)

NextMemory ==
    \/ Connect
    \/ ReceiveFails
    \/ DecodeFails
    \/ ReceiveWide
    \/ CppPrepare
    \/ CppCompileSpawn
    \/ CppCompileWait
    \/ CppExecuteSpawn
    \/ CppExecuteStdin
    \/ CppExecuteStdinResumes
    \/ CppExecuteWait
    \/ CppCleanup
    \/ JoinFails
    \/ SendFails
    \/ Send

SpecMemory == Init /\ [][NextMemory]_vars

(***************************************************************************)
(* CpuStats::from_str on its own: a text of up to MaxLines lines is given,  *)
(* and the one step parses it.                                              *)
(***************************************************************************)
CpuStatLines ==
    {<<"usage_usec", " ", "1">>,
     <<"user_usec", " ", "+", "2">>,
     <<"system_usec", "\t", " ", "0", " ">>,
     <<"user_usec", " ", "2", "5", "5">>,
     <<"nr_periods", " ", "7">>,
     <<>>,
     <<" ">>,
     <<"usage_usec">>,
     <<"usage_usec", " ", "1", " ", "1">>,
     <<"usage_usec", " ", "-", "1">>,
     <<"system_usec", " ", "1", "x">>,
     <<"user_usec", " ", "2", "5", "6">>}

RECURSIVE JoinLines(_)
JoinLines(lines) ==
    IF lines = <<>> THEN <<>>
    ELSE Head(lines) \o <<"\n">> \o JoinLines(Tail(lines))

CpuStatTexts ==
    {JoinLines(lines) : lines \in UNION {[1..n -> CpuStatLines] : n \in 0..MaxLines}}

InitCpuStats ==
    /\ main_pc = "connect"
    /\ exit_code = -1
    /\ exit_reason = "running"
    /\ nread = 0
    /\ nwritten = 0
    /\ last_frame = NoResponse
    /\ request = NoRequest
    /\ task = "idle"
    /\ ctx = NoContext
    /\ case_idx = 0
    /\ max_cpu_time_ms = 0
    /\ max_real_time_ms = 0
    /\ max_memory_kib = 0
    /\ retries = 0
    /\ result = NoResult
    /\ response = NoResponse
    /\ fs = {}
    /\ leaked_dirs = 0
    /\ cgroups = {}
    /\ exec_calls = <<>>
    /\ exec_results = <<>>
    /\ cleanup_calls = 0
    /\ compile_result = NoCompile
    /\ need_compile = FALSE
    /\ child = NoChild
    /\ exec_steps = <<>>
    /\ exec_run = NoRun
    /\ seccomp = NoFilters
    /\ LibInit
    /\ \E text \in CpuStatTexts : cpu_stat = [text |-> text, parsed |-> NoResult]

\* CpuStats::from_str(&text)
ParseCpuStat ==
    /\ cpu_stat.parsed = NoResult
    /\ cpu_stat' = [text |-> cpu_stat.text, parsed |-> CpuStatsFromStr(cpu_stat.text)]
    /\ UNCHANGED <<main_vars, engine_vars, env_vars, exec_calls, exec_results,
                   cleanup_calls, compile_result>>
    /\ UNCHANGED <<handler_vars, lib_vars>>

NextCpuStats == ParseCpuStat

SpecCpuStats == InitCpuStats /\ [][NextCpuStats]_vars

(***************************************************************************)
(* Framing, shared/src/protocol.rs: one side of a stream calls send_data,  *)
(* the other receive_data.  Bytes are 0..255.  Lengths stay far below 2^31, *)
(* so the cast `result.len() as u32` of main.rs 43 keeps them.             *)
(***************************************************************************)
\* payloads: empty, short, one that reads like a frame, one that reads like an empty
\* frame, and two whose length does not fit one byte
Payloads ==
    {<<>>, <<7>>, <<1, 0, 0, 0, 7>>, <<0, 0, 0, 0>>, [i \in 1..256 |-> 0],
     [i \in 1..257 |-> 1]}

\* variant: the length is written most significant byte first
WriteU32Be(n) ==
    <<(n \div 16777216) % 256, (n \div 65536) % 256, (n \div 256) % 256, n % 256>>

\* write_u32_le(len): the four bytes, least significant first
WriteU32Le(n) ==
    <<n % 256, (n \div 256) % 256, (n \div 65536) % 256, (n \div 16777216) % 256>>

\* read_u32_le on four bytes
ReadU32Le(b) == b[1] + 256 * b[2] + 65536 * b[3] + 16777216 * b[4]

\* protocol.rs 12-13: the bytes send_data(stream, data, len) writes
SendData(data, len) == WriteU32Le(len) \o data

\* protocol.rs 22-26 on a stream holding `bytes`, whose end was reached or not: the read
\* of the length and read_exact return once their bytes are there, fail with
\* UnexpectedEof (after `got` bytes) if the stream ends first, and wait otherwise
ReceiveData(bytes, eof) ==
    IF Len(bytes) < 4
    THEN [done |-> eof, res |-> Err([kind |-> "UnexpectedEof", got |-> Len(bytes)]),
          rest |-> <<>>]
    ELSE LET len == ReadU32Le(SubSeq(bytes, 1, 4))
         IN  IF Len(bytes) - 4 < len
             THEN [done |-> eof,
                   res |-> Err([kind |-> "UnexpectedEof", got |-> Len(bytes)]),
                   rest |-> <<>>]
             ELSE [done |-> TRUE, res |-> Ok(SubSeq(bytes, 5, 4 + len)),
                   rest |-> SubSeq(bytes, 5 + len, Len(bytes))]

\* send_data(&mut stream, &data, data.len() as u32) returns Ok
StreamSend ==
    /\ ~stream.eof
    /\ Len(sent) < MaxFrames
    /\ \E data \in Payloads :
          /\ stream' = [bytes |-> stream.bytes \o SendData(data, Len(data)),
                        eof |-> FALSE]
          /\ sent' = Append(sent, data)
    /\ UNCHANGED <<main_vars, engine_vars, env_vars, log_vars, handler_vars, received,
                   plain, encoded, decoded, firecracker>>

\* where a write of a frame may stop: within the length, at its end, within the payload
CutPoints(frame) == {k \in 0..(Len(frame) - 1) : k <= 5 \/ k = Len(frame) - 1}

\* a write of send_data fails after k bytes of the frame (k = 0: the writer ends between
\* frames); `?` returns the error and the writer's end of the stream is closed
StreamSendFails ==
    /\ ~stream.eof
    /\ \E data \in Payloads :
          LET frame == SendData(data, Len(data))
          IN  \E k \in CutPoints(frame) :
                 stream' = [bytes |-> stream.bytes \o SubSeq(frame, 1, k), eof |-> TRUE]
    /\ UNCHANGED <<main_vars, engine_vars, env_vars, log_vars, handler_vars, sent,
                   received, plain, encoded, decoded, firecracker>>

\* receive_data(&mut stream) returns; after an error the reader stops
StreamReceive ==
    /\ \A i \in 1..Len(received) : received[i].ok
    /\ LET r == ReceiveData(stream.bytes, stream.eof)
       IN  /\ r.done
           /\ received' = Append(received, r.res)
           /\ stream' = [bytes |-> r.rest, eof |-> stream.eof]
    /\ UNCHANGED <<main_vars, engine_vars, env_vars, log_vars, handler_vars, sent, plain,
                   encoded, decoded, firecracker>>

NextFraming ==
    \/ StreamSend
    \/ StreamSendFails
    \/ StreamReceive

SpecFraming == Init /\ [][NextFraming]_vars

(***************************************************************************)
(* The wire format of requests and responses: postcard over the serde      *)
(* derives of shared/src/rpc.rs.  The format is not self-describing: a     *)
(* struct is its fields in order, an enum a variant index and the fields,  *)
(* an integer a varint, a string or a list its length and its elements,    *)
(* an Option one byte 0 or 1 and then the value.  Text is ASCII here, one   *)
(* byte per character.                                                     *)
(***************************************************************************)
PresentationError == [tag |-> "PresentationError"]

\* what a step of the decoder took off the front of the input, and what it left
Taken(v, rest) == [ok |-> TRUE, val |-> v, rest |-> rest]

\* u64, usize and u32 are written seven bits at a time, low bits first, the high bit of a
\* byte saying that more follow
RECURSIVE Varint(_)
Varint(n) == IF n < 128 THEN <<n>> ELSE <<128 + (n % 128)>> \o Varint(n \div 128)

RECURSIVE TakeVarint(_, _)
TakeVarint(bytes, max_bytes) ==
    IF bytes = <<>> THEN Err("DeserializeUnexpectedEnd")
    ELSE IF max_bytes = 0 THEN Err("DeserializeBadVarint")
    ELSE IF Head(bytes) < 128 THEN Taken(Head(bytes), Tail(bytes))
    ELSE LET more == TakeVarint(Tail(bytes), max_bytes - 1)
         IN  IF ~more.ok THEN more
             ELSE Taken(Head(bytes) - 128 + 128 * more.val, more.rest)

TakeU64(bytes) == TakeVarint(bytes, 10)
TakeU32(bytes) == TakeVarint(bytes, 5)

EncodeBool(b) == <<IF b THEN 1 ELSE 0>>

TakeBool(bytes) ==
    IF bytes = <<>> THEN Err("DeserializeUnexpectedEnd")
    ELSE IF Head(bytes) = 0 THEN Taken(FALSE, Tail(bytes))
    ELSE IF Head(bytes) = 1 THEN Taken(TRUE, Tail(bytes))
    ELSE Err("DeserializeBadBool")

EncodeString(str) == Varint(Len(str)) \o str

\* the model's text has no byte above 127, and such a byte alone is not UTF-8
TakeString(bytes) ==
    LET n == TakeU64(bytes)
    IN  IF ~n.ok THEN n
        ELSE IF Len(n.rest) < n.val THEN Err("DeserializeUnexpectedEnd")
        ELSE IF \E i \in 1..n.val : n.rest[i] > 127 THEN Err("DeserializeBadUtf8")
        ELSE Taken(SubSeq(n.rest, 1, n.val), SubSeq(n.rest, n.val + 1, Len(n.rest)))

\* Option<bool>: serialize_none, serialize_some
EncodeOptionBool(o) == IF o.some THEN <<1>> \o EncodeBool(o.val) ELSE <<0>>

TakeOptionBool(bytes) ==
    IF bytes = <<>> THEN Err("DeserializeUnexpectedEnd")
    ELSE IF Head(bytes) = 0 THEN Taken(None, Tail(bytes))
    ELSE IF Head(bytes) = 1
    THEN LET b == TakeBool(Tail(bytes))
         IN  IF ~b.ok THEN b ELSE Taken(Some(b.val), b.rest)
    ELSE Err("DeserializeBadOption")

\* rpc.rs 1-26: the variants are numbered in the order they are declared
EncodeJudgeResult(r) ==
    CASE r.tag = "Accepted" ->
            Varint(0) \o Varint(r.cpu_time_ms) \o Varint(r.real_time_ms)
            \o Varint(r.memory_kib)
      [] r.tag = "WrongAnswer" ->
            Varint(1) \o EncodeString(r.expected_output) \o EncodeString(r.actual_output)
      [] r.tag = "RuntimeError" ->
            Varint(2) \o EncodeString(r.actual_output) \o EncodeString(r.error_message)
      [] r.tag = "CompilationError" -> Varint(3) \o EncodeString(r.compiler_message)
      [] r.tag = "InternalError" -> Varint(4) \o EncodeString(r.error_message)
      [] r.tag = "TimeLimitExceeded" -> Varint(5)
      [] r.tag = "MemoryLimitExceeded" -> Varint(6)
      [] r.tag = "OutputLimitExceeded" -> Varint(7)
      [] r.tag = "PresentationError" -> Varint(8)

\* rpc.rs 47-51
TakeLanguage(bytes) ==
    LET variant == TakeU32(bytes)
    IN  IF ~variant.ok THEN variant
        ELSE IF variant.val = 0 THEN Taken("Cpp", variant.rest)
        ELSE Err("SerdeDeCustom")

\* rpc.rs 25: the variants of JudgeResult in the order they are declared
Variants ==
    <<"Accepted", "WrongAnswer", "RuntimeError", "CompilationError", "InternalError",
      "TimeLimitExceeded", "MemoryLimitExceeded", "OutputLimitExceeded",
      "PresentationError">>

\* derive(Deserialize): the types of the fields of each struct and of each variant of
\* JudgeResult, in the order they are declared; no field has a default
FieldsOf(type) ==
    CASE type = "JudgeResponse" -> <<"u64", "Option<bool>", "JudgeResult">>
      [] type = "JudgeRequest" ->
            <<"u64", "Language", "String", "Vec<TestCase>", "ResourceLimits">>
      [] type = "TestCase" -> <<"String", "String">>
      [] type = "ResourceLimits" -> <<"u64", "u64">>
      [] type = "Accepted" -> <<"u64", "u64", "u64">>
      [] type \in {"WrongAnswer", "RuntimeError"} -> <<"String", "String">>
      [] type \in {"CompilationError", "InternalError"} -> <<"String">>
      [] OTHER -> <<>>

\* the value of a struct or variant whose fields, in declared order, are f
Make(type, f) ==
    CASE type = "JudgeResponse" ->
            [type |-> "JudgeResponse", id |-> f[1], is_fatal_error |-> f[2],
             result |-> f[3]]
      [] type = "JudgeRequest" ->
            [type |-> "JudgeRequest", id |-> f[1], language |-> f[2],
             source_code |-> f[3], test_cases |-> f[4], limits |-> f[5]]
      [] type = "TestCase" -> [input_data |-> f[1], expected_output |-> f[2]]
      [] type = "ResourceLimits" -> [time_ms |-> f[1], memory_kib |-> f[2]]
      [] type = "Accepted" -> Accepted(f[1], f[2], f[3])
      [] type = "WrongAnswer" -> WrongAnswer(f[1], f[2])
      [] type = "RuntimeError" -> RuntimeError(f[1], f[2])
      [] type = "CompilationError" -> CompilationError(f[1])
      [] type = "InternalError" -> InternalError(f[1])
      [] type = "TimeLimitExceeded" -> TimeLimitExceeded
      [] type = "MemoryLimitExceeded" -> MemoryLimitExceeded
      [] type = "OutputLimitExceeded" -> OutputLimitExceeded
      [] type = "PresentationError" -> PresentationError

RECURSIVE Take(_, _)

\* values of the given types one after the other; the first that fails ends the
\* decoding (`?`)
RECURSIVE TakeFields(_, _)
TakeFields(types, bytes) ==
    IF types = <<>> THEN Taken(<<>>, bytes)
    ELSE LET first == Take(Head(types), bytes)
         IN  IF ~first.ok THEN first
             ELSE LET others == TakeFields(Tail(types), first.rest)
                  IN  IF ~others.ok THEN others
                      ELSE Taken(<<first.val>> \o others.val, others.rest)

\* a struct, or the fields of a variant
TakeStruct(type, bytes) ==
    LET fields == TakeFields(FieldsOf(type), bytes)
    IN  IF ~fields.ok THEN fields ELSE Taken(Make(type, fields.val), fields.rest)

\* rpc.rs 1-26, derive(Deserialize): the variant index, then that variant's fields
TakeJudgeResult(bytes) ==
    LET variant == TakeU32(bytes)
    IN  IF ~variant.ok THEN variant
        ELSE IF variant.val >= Len(Variants) THEN Err("SerdeDeCustom")
        ELSE TakeStruct(Variants[variant.val + 1], variant.rest)

\* Vec<TestCase>: the length, then the elements
TakeTestCases(bytes) ==
    LET n == TakeU64(bytes)
    IN  IF ~n.ok THEN n
        ELSE TakeFields([i \in 1..n.val |-> "TestCase"], n.rest)

\* T::deserialize for the types of rpc.rs
Take(type, bytes) ==
    CASE type = "u64" -> TakeU64(bytes)
      [] type = "String" -> TakeString(bytes)
      [] type = "Option<bool>" -> TakeOptionBool(bytes)
      [] type = "Language" -> TakeLanguage(bytes)
      [] type = "JudgeResult" -> TakeJudgeResult(bytes)
      [] type = "Vec<TestCase>" -> TakeTestCases(bytes)
      [] OTHER -> TakeStruct(type, bytes)

\* rpc.rs 66-78, derive(Serialize): id, then is_fatal_error unless
\* skip_serializing_if = "Option::is_none" holds of it, then result
EncodeJudgeResponse(r) ==
    Varint(r.id)
    \o (IF r.is_fatal_error = None THEN <<>> ELSE EncodeOptionBool(r.is_fatal_error))
    \o EncodeJudgeResult(r.result)

\* rpc.rs 90-98
EncodeTestCase(c) == EncodeString(c.input_data) \o EncodeString(c.expected_output)

RECURSIVE EncodeTestCases(_)
EncodeTestCases(cases) ==
    IF cases = <<>> THEN <<>>
    ELSE EncodeTestCase(Head(cases)) \o EncodeTestCases(Tail(cases))

\* rpc.rs 28-45 and 80-88, derive(Serialize)
EncodeJudgeRequest(r) ==
    Varint(r.id) \o Varint(0) \o EncodeString(r.source_code)
    \o Varint(Len(r.test_cases)) \o EncodeTestCases(r.test_cases)
    \o Varint(r.limits.time_ms) \o Varint(r.limits.memory_kib)

\* postcard::to_allocvec(&v), main.rs 42
ToAllocvec(v) ==
    IF v.type = "JudgeResponse" THEN EncodeJudgeResponse(v) ELSE EncodeJudgeRequest(v)

\* postcard::from_bytes::<T>(&bytes), main.rs 21: bytes left over are not looked at
FromBytes(type, bytes) ==
    LET r == Take(type, bytes)
    IN  IF r.ok THEN Ok(r.val) ELSE Err(r.err)

\* values given to the encoder: numbers on both sides of the one-byte varints, texts of
\* several lengths
WireNumbers == {1, 127, 300}
WireStrings == {<<>>, <<97>>, <<97, 98, 10, 97, 98>>}

WireResults ==
    {Accepted(0, 0, 0), Accepted(1, 300, 128), TimeLimitExceeded, MemoryLimitExceeded,
     OutputLimitExceeded, PresentationError}
    \cup {WrongAnswer(e, a) : e, a \in WireStrings}
    \cup {RuntimeError(a, m) : a, m \in WireStrings}
    \cup {CompilationError(m) : m \in WireStrings}
    \cup {InternalError(m) : m \in WireStrings}

WireResponses ==
    [type : {"JudgeResponse"}, id : WireNumbers,
     is_fatal_error : {None, Some(TRUE), Some(FALSE)}, result : WireResults]

WireTestCases == [input_data : WireStrings, expected_output : {<<>>, <<97>>}]

WireRequests ==
    [type : {"JudgeRequest"}, id : {1, 300}, language : {"Cpp"},
     source_code : {<<>>, <<97>>},
     test_cases : UNION {[1..n -> WireTestCases] : n \in 0..MaxTests},
     limits : [time_ms : {1}, memory_kib : {1, 300}]]

InitCodec ==
    /\ AgentInit
    /\ stream = EmptyStream
    /\ sent = <<>>
    /\ received = <<>>
    /\ plain \in WireResponses \cup WireRequests
    /\ encoded = NoResult
    /\ decoded = NoResult
    /\ firecracker = New

Encode ==
    /\ encoded = NoResult
    /\ encoded' = Ok(ToAllocvec(plain))
    /\ UNCHANGED <<main_vars, engine_vars, env_vars, log_vars, handler_vars, stream, sent,
                   received, plain, decoded, firecracker>>

Decode ==
    /\ encoded.ok
    /\ decoded = NoResult
    /\ decoded' = FromBytes(plain.type, encoded.val)
    /\ UNCHANGED <<main_vars, engine_vars, env_vars, log_vars, handler_vars, stream, sent,
                   received, plain, encoded, firecracker>>

NextCodec ==
    \/ Encode
    \/ Decode

SpecCodec == InitCodec /\ [][NextCodec]_vars

(***************************************************************************)
(* The Firecracker wrapper of lib/firecracker-sdk: one wrapper, its methods *)
(* called one after another in any order with any outcome of the process   *)
(* spawn, of the API socket and of the API requests                        *)
(***************************************************************************)
\* the most Firecracker processes one wrapper spawns
MaxStarts == 2
\* the most drives, network interfaces and pmem devices together in a configuration
MaxDevices == 1

agent_vars == <<main_vars, engine_vars, env_vars, log_vars, handler_vars, wire_vars>>

\* firecracker.rs 12-30, enum Error
InvalidState(msg) == [kind |-> "InvalidState", msg |-> msg]
ProcessError == [kind |-> "Process", msg |-> "spawn"]
CannotConnectApiSocket == [kind |-> "CannotConnectApiSocket", msg |-> ""]
ApiError == [kind |-> "Api", msg |-> "request"]

BootSources == {"vmlinux"}
MachineConfigurations == {"1vcpu"}
Drives == {"rootfs"}
NetworkInterfaces == {"eth0"}
Pmems == {"pmem0"}
Vsocks == {"vsock"}
Balloons == {"balloon"}

\* the number of drives, network interfaces and pmem devices of a configuration
Devices(config) == Len(config.drives) + Len(config.networks) + Len(config.pmems)

\* the wrapper at the entry of a method
Entered(fc) == [fc EXCEPT !.puts = <<>>, !.ctrl_alt_del = "none", !.kill = "none"]

\* the wrapper after a call of `method` that returned res
Returned(fc, method, res) ==
    [fc EXCEPT !.call = method, !.ret = res, !.tick = ~fc.tick]

\* firecracker.rs 87-95
EnsureNotStarted(fc) ==
    IF fc.state = "NotStarted" THEN Ok("unit")
    ELSE Err(InvalidState("Cannot modify config after Firecracker has started"))

\* a configuration method: ensure_not_started()?, then the store into config, then Ok(())
Configured(method, config) ==
    /\ LET res == EnsureNotStarted(firecracker)
       IN  firecracker' =
               Returned(IF res.ok THEN [Entered(firecracker) EXCEPT !.config = config]
                        ELSE Entered(firecracker), method, res)
    /\ UNCHANGED agent_vars

\* firecracker.rs 97-102
SetBootSource ==
    /\ ~firecracker.dropped
    /\ \E boot_source \in BootSources :
          Configured("set_boot_source",
                     [firecracker.config EXCEPT !.boot_source = Some(boot_source)])

\* firecracker.rs 104-112
SetMachineConfig ==
    /\ ~firecracker.dropped
    /\ \E machine_config \in MachineConfigurations :
          Configured("set_machine_config",
                     [firecracker.config EXCEPT !.machine_config = Some(machine_config)])

\* firecracker.rs 114-119
AddDrive ==
    /\ ~firecracker.dropped
    /\ Devices(firecracker.config) < MaxDevices \/ firecracker.state # "NotStarted"
    /\ \E drive \in Drives :
          Configured("add_drive",
                     [firecracker.config EXCEPT !.drives = Append(@, drive)])

\* firecracker.rs 121-126
AddNetwork ==
    /\ ~firecracker.dropped
    /\ Devices(firecracker.config) < MaxDevices \/ firecracker.state # "NotStarted"
    /\ \E network \in NetworkInterfaces :
          Configured("add_network",
                     [firecracker.config EXCEPT !.networks = Append(@, network)])

\* firecracker.rs 128-133
AddPmem ==
    /\ ~firecracker.dropped
    /\ Devices(firecracker.config) < MaxDevices \/ firecracker.state # "NotStarted"
    /\ \E pmem \in Pmems :
          Configured("add_pmem", [firecracker.config EXCEPT !.pmems = Append(@, pmem)])

\* variant: set_vsock stores the vsock in every state
SetVsockInEveryState ==
    /\ ~firecracker.dropped
    /\ \E vsock \in Vsocks :
          firecracker' =
              Returned([Entered(firecracker) EXCEPT !.config.vsock = Some(vsock)],
                       "set_vsock", Ok("unit"))
    /\ UNCHANGED agent_vars

\* firecracker.rs 135-140
SetVsock ==
    /\ ~firecracker.dropped
    /\ \E vsock \in Vsocks :
          Configured("set_vsock", [firecracker.config EXCEPT !.vsock = Some(vsock)])

\* firecracker.rs 142-147
SetBalloon ==
    /\ ~firecracker.dropped
    /\ \E balloon \in Balloons :
          Configured("set_balloon", [firecracker.config EXCEPT !.balloon = Some(balloon)])

\* the requests of apply_config in their order, firecracker.rs 163-189
ConfigPuts(config) ==
    (IF config.boot_source.some THEN <<"boot-source">> ELSE <<>>)
    \o (IF config.machine_config.some THEN <<"machine-config">> ELSE <<>>)
    \o [i \in 1..Len(config.drives) |-> "drives"]
    \o [i \in 1..Len(config.networks) |-> "network-interfaces"]
    \o [i \in 1..Len(config.pmems) |-> "pmem"]
    \o (IF config.vsock.some THEN <<"vsock">> ELSE <<>>)
    \o (IF config.balloon.some THEN <<"balloon">> ELSE <<>>)

\* firecracker.rs 156-192: the requests are sent in order until one fails (the fail_at-th;
\* none when fail_at = 0), `?` returning its error
ApplyConfig(fc, fail_at) ==
    IF ~fc.client.some
    THEN [res |-> Err(InvalidState("Api client not available")), puts |-> <<>>]
    ELSE IF fail_at \in 1..Len(ConfigPuts(fc.config))
    THEN [res |-> Err(ApiError), puts |-> SubSeq(ConfigPuts(fc.config), 1, fail_at - 1)]
    ELSE [res |-> Ok("unit"), puts |-> ConfigPuts(fc.config)]

\* where a start in NotStarted can end: at the spawn, at the wait for the API socket, at
\* the instance-info query, at the fail_at-th request of apply_config, at the
\* InstanceStart action, or nowhere
StartFailures ==
    [at : {"spawn", "socket", "instance_info", "instance_start", "none"}, fail_at : {0}]
        \cup [at : {"apply_config"}, fail_at : 1..(4 + MaxDevices)]

\* firecracker.rs 221-226: the fields of the wrapper once the client is made and the
\* instance info is read; a Child that was in process is dropped, which does not end it
Attached(fc, pid) ==
    [fc EXCEPT !.client = Some("client"), !.process = Some(pid),
               !.instance_info = Some("info")]

\* firecracker.rs 194-243 from the spawn on, for a wrapper in NotStarted; a Child that
\* goes out of scope at an early return is dropped, and tokio does not kill the process
\* of a dropped Child (kill_on_drop is not set)
Started(fc, failure) ==
    LET pid == fc.spawned + 1
        forked == [fc EXCEPT !.procs = @ \cup {pid}, !.spawned = pid, !.puts = <<>>]
        applied == ApplyConfig(Attached(forked, pid), failure.fail_at)
        configured == [Attached(forked, pid) EXCEPT !.puts = applied.puts]
    IN  CASE failure.at = "spawn" -> Returned(fc, "start", Err(ProcessError))
          [] failure.at = "socket" -> Returned(forked, "start", Err(CannotConnectApiSocket))
          [] failure.at = "instance_info" -> Returned(forked, "start", Err(ApiError))
          [] failure.at = "apply_config" -> Returned(configured, "start", applied.res)
          [] failure.at = "instance_start" -> Returned(configured, "start", Err(ApiError))
          [] OTHER -> Returned([configured EXCEPT !.state = "Running"], "start", Ok("unit"))

\* firecracker.rs 194-243
Start ==
    /\ ~firecracker.dropped
    /\ IF firecracker.state # "NotStarted"
       THEN firecracker' =
                Returned(Entered(firecracker), "start",
                         Err(InvalidState("Firecracker already started")))
       ELSE \E failure \in StartFailures :
               /\ failure.at = "spawn" \/ firecracker.spawned < MaxStarts
               /\ failure.at = "apply_config" =>
                      failure.fail_at <= Len(ConfigPuts(firecracker.config))
               /\ firecracker' = Started(Entered(firecracker), failure)
    /\ UNCHANGED agent_vars

\* variant: the state is Paused although the request has failed
PauseIgnoresApiError ==
    /\ ~firecracker.dropped
    /\ firecracker' =
          IF firecracker.state = "Stopped"
          THEN Returned(Entered(firecracker), "pause",
                        Err(InvalidState("Cannot pause: vm is stopped")))
          ELSE IF firecracker.state # "Running"
          THEN Returned(Entered(firecracker), "pause",
                        Err(InvalidState("Cannot pause: vm is not running")))
          ELSE Returned([Entered(firecracker) EXCEPT !.state = "Paused"], "pause",
                        Err(ApiError))
    /\ UNCHANGED agent_vars

\* firecracker.rs 245-264
Pause ==
    /\ ~firecracker.dropped
    /\ \E api_ok \in BOOLEAN :
          firecracker' =
              IF firecracker.state = "Stopped"
              THEN Returned(Entered(firecracker), "pause",
                            Err(InvalidState("Cannot pause: vm is stopped")))
              ELSE IF firecracker.state # "Running"
              THEN Returned(Entered(firecracker), "pause",
                            Err(InvalidState("Cannot pause: vm is not running")))
              ELSE IF ~firecracker.client.some
              THEN Returned(Entered(firecracker), "pause",
                            Err(InvalidState("Api client not available")))
              ELSE IF ~api_ok
              THEN Returned(Entered(firecracker), "pause", Err(ApiError))
              ELSE Returned([Entered(firecracker) EXCEPT !.state = "Paused"], "pause", Ok("unit"))
    /\ UNCHANGED agent_vars

\* firecracker.rs 266-285
Resume ==
    /\ ~firecracker.dropped
    /\ \E api_ok \in BOOLEAN :
          firecracker' =
              IF firecracker.state = "Stopped"
              THEN Returned(Entered(firecracker), "resume",
                            Err(InvalidState("Cannot resume: vm is stopped")))
              ELSE IF firecracker.state # "Paused"
              THEN Returned(Entered(firecracker), "resume",
                            Err(InvalidState("Cannot resume: vm is not paused")))
              ELSE IF ~firecracker.client.some
              THEN Returned(Entered(firecracker), "resume",
                            Err(InvalidState("Api client not available")))
              ELSE IF ~api_ok
              THEN Returned(Entered(firecracker), "resume", Err(ApiError))
              ELSE Returned([Entered(firecracker) EXCEPT !.state = "Running"], "resume", Ok("unit"))
    /\ UNCHANGED agent_vars

\* process.take() and the kill of the process taken, whose result is dropped: a kill that
\* fails leaves the process alive
Killed(fc, kill_ok) ==
    IF ~fc.process.some THEN [fc EXCEPT !.kill = "none"]
    ELSE IF kill_ok
    THEN [fc EXCEPT !.process = None, !.procs = @ \ {fc.process.val}, !.kill = "ok"]
    ELSE [fc EXCEPT !.process = None, !.kill = "failed"]

\* variant: a kill that fails is returned as the error of shutdown, by `?`
ShutdownReturnsKillError ==
    /\ ~firecracker.dropped
    /\ \E request_ok \in BOOLEAN, kill_ok \in BOOLEAN :
          LET requested ==
                  [Entered(firecracker) EXCEPT
                      !.ctrl_alt_del = IF ~firecracker.client.some THEN "none"
                                       ELSE IF request_ok THEN "ok" ELSE "failed"]
              killed == Killed(requested, kill_ok)
          IN  firecracker' =
                  IF killed.kill = "failed"
                  THEN Returned(killed, "shutdown", Err(ProcessError))
                  ELSE Returned([killed EXCEPT !.client = None, !.process = None,
                                               !.state = "Stopped",
                                               !.instance_info = None],
                                "shutdown", Ok("unit"))
    /\ UNCHANGED agent_vars

\* firecracker.rs 287-309
Shutdown ==
    /\ ~firecracker.dropped
    /\ \E request_ok \in BOOLEAN, kill_ok \in BOOLEAN :
          LET requested ==
                  [Entered(firecracker) EXCEPT
                      !.ctrl_alt_del = IF ~firecracker.client.some THEN "none"
                                       ELSE IF request_ok THEN "ok" ELSE "failed"]
              killed == Killed(requested, kill_ok)
          IN  firecracker' =
                  Returned([killed EXCEPT !.client = None, !.process = None,
                                          !.state = "Stopped", !.instance_info = None],
                           "shutdown", Ok("unit"))
    /\ UNCHANGED agent_vars

\* firecracker.rs 312-318: the wrapper is dropped, after which nothing is called on it
Drop ==
    /\ ~firecracker.dropped
    /\ \E kill_ok \in BOOLEAN :
          firecracker' =
              [Returned(Killed(Entered(firecracker), kill_ok),
                        "drop", NoResult)
                  EXCEPT !.dropped = TRUE]
    /\ UNCHANGED agent_vars

\* a Firecracker process the wrapper has spawned ends by itself
FirecrackerExits ==
    /\ \E pid \in firecracker.procs :
          firecracker' = [firecracker EXCEPT !.procs = @ \ {pid}]
    /\ UNCHANGED agent_vars

NextFirecracker ==
    \/ SetBootSource
    \/ SetMachineConfig
    \/ AddDrive
    \/ AddNetwork
    \/ AddPmem
    \/ SetVsock
    \/ SetBalloon
    \/ Start
    \/ Pause
    \/ Resume
    \/ Shutdown
    \/ Drop
    \/ FirecrackerExits

SpecFirecracker == Init /\ [][NextFirecracker]_vars

(***************************************************************************)
(* Properties                                                              *)
(***************************************************************************)
VerdictTags ==
    {"Accepted", "WrongAnswer", "RuntimeError", "CompilationError", "InternalError",
     "TimeLimitExceeded", "MemoryLimitExceeded", "OutputLimitExceeded"}

\* the set's largest element, 0 for the empty set
SetMax(S) == IF S = {} THEN 0 ELSE CHOOSE m \in S : \A x \in S : m >= x

\* the usage the log holds for the tests of this judgment
LoggedUsage(f(_)) == {f(exec_results[k].usage) : k \in 1..Len(exec_results)}
CpuOf(u) == u.cpu_time_ms
RealOf(u) == u.real_time_ms
MemOf(u) == u.memory_kib

\* test k of this judgment passed every check of the Engine, by the logged facts
Passed(k) ==
    /\ exec_results[k].ok
    /\ exec_results[k].usage.cpu_time_ms <= request.limits.time_ms
    /\ exec_results[k].usage.memory_kib <= request.limits.memory_kib
    /\ exec_results[k].success
    /\ exec_results[k].output_ok

\* C1: a request that Engine::judge is run for gets exactly one response frame, and the
\* frame carries the request's id, whichever path judge returns on: frames never outnumber
\* the requests read, the response judge returns and the frame written have the id of the
\* request, and when the loop is back at the read (or the agent has exited on a fatal
\* response) every request read has its frame.
C1_OneResponseSameId ==
    /\ nwritten <= nread
    /\ nread <= nwritten + 1
    /\ (task = "returned" => response.id = request.id /\ nwritten = nread - 1)
    /\ (last_frame # NoResponse => last_frame.id = request.id /\ nwritten = nread)
    /\ (main_pc = "receive" => nwritten = nread)
    /\ (exit_reason = "fatal" => nwritten = nread /\ last_frame # NoResponse)

\* the second request, numbered 2, answered Accepted after a first one numbered 1
C1_Witness ==
    /\ nwritten = 2
    /\ leaked_dirs = 1
    /\ request.id = 2
    /\ last_frame.id = 2
    /\ last_frame.result.tag = "Accepted"

\* C2: in every response the agent produces, is_fatal_error is true exactly when the
\* result is InternalError; the result is one of the eight verdicts.
C2_FatalIffInternalError ==
    /\ (task = "returned" =>
            /\ response.result.tag \in VerdictTags
            /\ response.is_fatal_error = (response.result.tag = "InternalError"))
    /\ (last_frame # NoResponse =>
            /\ last_frame.result.tag \in VerdictTags
            /\ last_frame.is_fatal_error = (last_frame.result.tag = "InternalError"))

\* a non-fatal frame was written before, and the frame written last is a fatal InternalError
C2_Witness ==
    /\ nwritten = 2
    /\ last_frame.result.tag = "InternalError"
    /\ last_frame.is_fatal_error

\* C3: once prepare has succeeded, the response is produced only after cleanup has been
\* invoked and the working directory is gone.
C3_CleanupBeforeResponse ==
    (task = "returned" /\ ctx # NoContext) => (cleanup_calls > 0 /\ fs = {})

\* C4: outside a compile or execute call no cgroup of such a call exists: every exit path
\* of the call has destroyed the cgroup it created.
C4_CgroupDestroyedOnExit ==
    task \notin {"compile_wait", "execute_stdin", "execute_wait"} => cgroups = {}

\* C5: when execute returns an ExecuteInfo that ends the judgment, the verdict is that of
\* the first matching check in the order time, memory, exit status, output, whatever
\* the later checks would say; and a test on which no check matches ends nothing.
C5_ChecksInOrder ==
    /\ (task = "returned" /\ result.ok =>
            LET info == result.val
                case == request.test_cases[case_idx]
                tle == info.resource_usage.cpu_time_ms > request.limits.time_ms
                mle == info.resource_usage.memory_kib > request.limits.memory_kib
                re == ~info.success
                wa == Trim(case.expected_output) # Trim(info.stdout)
            IN  /\ tle \/ mle \/ re \/ wa
                /\ tle => response.result = TimeLimitExceeded
                /\ ~tle /\ mle => response.result = MemoryLimitExceeded
                /\ ~tle /\ ~mle /\ re => response.result.tag = "RuntimeError"
                /\ ~tle /\ ~mle /\ ~re /\ wa =>
                        response.result =
                            WrongAnswer(Trim(case.expected_output), Trim(info.stdout)))
    /\ (Len(exec_results) > 0 /\ Passed(Len(exec_results)) => ~result.ok)

\* all four checks match and the verdict is TimeLimitExceeded
C5_Witness ==
    /\ task = "returned"
    /\ result.ok
    /\ result.val.resource_usage.cpu_time_ms > request.limits.time_ms
    /\ result.val.resource_usage.memory_kib > request.limits.memory_kib
    /\ ~result.val.success
    /\ Trim(request.test_cases[case_idx].expected_output) # Trim(result.val.stdout)
    /\ response.result = TimeLimitExceeded

\* C6: an Accepted verdict reports cpu_time_ms <= limits.time_ms and
\* memory_kib <= limits.memory_kib, for any number of tests.
C6_AcceptedWithinLimits ==
    /\ (task = "returned" /\ response.result.tag = "Accepted" =>
            /\ response.result.cpu_time_ms <= request.limits.time_ms
            /\ response.result.memory_kib <= request.limits.memory_kib)
    /\ (last_frame # NoResponse /\ last_frame.result.tag = "Accepted" =>
            /\ last_frame.result.cpu_time_ms <= request.limits.time_ms
            /\ last_frame.result.memory_kib <= request.limits.memory_kib)

\* Accepted for two tests with the cpu time and the memory right at the limits
C6_Witness ==
    /\ task = "returned"
    /\ Len(request.test_cases) = 2
    /\ response.result.tag = "Accepted"
    /\ response.result.cpu_time_ms = request.limits.time_ms
    /\ response.result.memory_kib = request.limits.memory_kib

\* C7: when every test has passed (and cleanup succeeded) the verdict is Accepted, and an
\* Accepted verdict carries, for each of cpu_time_ms, real_time_ms and memory_kib, the
\* maximum of that quantity over all the tests of the submission, 0 for no test.
C7_AcceptedCarriesMaxima ==
    task = "returned" =>
        /\ (cleanup_calls > 0 /\ fs = {} => response.result.tag = "Accepted")
        /\ (response.result.tag = "Accepted" =>
                /\ Len(exec_results) = Len(request.test_cases)
                /\ \A k \in 1..Len(exec_results) : Passed(k)
                /\ response.result.cpu_time_ms = SetMax(LoggedUsage(CpuOf))
                /\ response.result.real_time_ms = SetMax(LoggedUsage(RealOf))
                /\ response.result.memory_kib = SetMax(LoggedUsage(MemOf)))

\* Accepted where the first test has the larger elapsed time and the smaller cpu time
C7_Witness ==
    /\ task = "returned"
    /\ response.result.tag = "Accepted"
    /\ Len(exec_results) = 2
    /\ exec_results[1].usage.real_time_ms > exec_results[2].usage.real_time_ms
    /\ exec_results[1].usage.cpu_time_ms < exec_results[2].usage.cpu_time_ms
    /\ exec_results[1].usage.memory_kib > exec_results[2].usage.memory_kib

\* C8: handler.execute is called for the tests in list order, one call at a time, and a
\* test that does not pass is the last one executed: no execute call follows it, judge
\* has returned, and the verdict is that test's outcome.
C8_StopsAtFirstFailure ==
    /\ exec_calls = [k \in 1..Len(exec_calls) |-> k]
    /\ Len(exec_calls) <= Len(request.test_cases)
    /\ Len(exec_results) <= Len(exec_calls)
    /\ Len(exec_calls) <= Len(exec_results) + 1
    /\ \A k \in 1..Len(exec_results) :
          ~Passed(k) =>
              /\ Len(exec_calls) = k
              /\ task = "returned"
              /\ IF exec_results[k].ok
                 THEN response.result.tag \in
                          {"TimeLimitExceeded", "MemoryLimitExceeded", "RuntimeError",
                           "WrongAnswer"}
                 ELSE response.result = FromHandlerError(result.err)

\* the first of two tests ended the judgment with WrongAnswer
C8_Witness ==
    /\ task = "returned"
    /\ Len(request.test_cases) = 2
    /\ exec_calls = <<1>>
    /\ response.result.tag = "WrongAnswer"

\* C9: requests are handled one at a time: whenever the agent is at the read no judgment
\* is in flight, and a request frame is read only when every frame read before has had its
\* response written.
C9_OneAtATime ==
    /\ [](main_pc = "receive" => task = "idle")
    /\ [](task # "idle" => main_pc = "await")
    /\ [][nread' # nread => nwritten = nread /\ task = "idle"]_vars

\* the second request is being judged, the first response is on the stream
C9_Witness ==
    /\ nread = 2
    /\ nwritten = 1
    /\ task = "execute_wait"

\* C10: the step that writes a response ends the process with exit code 1 when the
\* response is an InternalError, and otherwise puts the agent back at the read, where the
\* next request is read; once the process has exited nothing is read or written.
C10_ExitOnFatalOnly ==
    /\ [][nwritten' # nwritten =>
            IF last_frame'.result.tag = "InternalError"
            THEN main_pc' = "exited" /\ exit_code' = 1
            ELSE main_pc' = "receive" /\ exit_code' = -1]_vars
    /\ [][main_pc # "exited"]_vars

\* a first response that was not fatal was followed by the read of a second request, whose
\* fatal response ended the process
C10_Witness ==
    /\ nread = 2
    /\ nwritten = 2
    /\ exit_reason = "fatal"
    /\ exit_code = 1

\* C11: when the payload of a request frame does not decode as a JudgeRequest, a response
\* frame carrying a fatal InternalError is written before the agent stops.
C11_DecodeFailureAnswered ==
    exit_reason = "Postcard" =>
        /\ nwritten = nread
        /\ last_frame.result.tag = "InternalError"
        /\ last_frame.is_fatal_error

\* C12: for a request with no test case, execute is never called, and when prepare, compile
\* and cleanup have succeeded judge returns Accepted with cpu_time_ms = 0, real_time_ms = 0
\* and memory_kib = 0.
C12_EmptyTestsAccepted ==
    request.test_cases = <<>> =>
        /\ exec_calls = <<>>
        /\ task \notin {"execute", "execute_stdin", "execute_wait"}
        /\ (task = "returned" /\ ctx # NoContext /\ compile_result.called
                /\ compile_result.ok /\ compile_result.exit = "success"
                /\ cleanup_calls > 0 /\ fs = {}
             => response = IntoJudgeResponse(Accepted(0, 0, 0), request.id))

\* the second request has no test case and is answered Accepted after a retried cleanup
C12_Witness ==
    /\ nread = 2
    /\ nwritten = 1
    /\ retries > 0
    /\ task = "returned"
    /\ request.test_cases = <<>>
    /\ response.result = Accepted(0, 0, 0)

\* C13: when the compiler has exited with a non-success status (its cgroup's failure
\* counter zero and the cgroup deleted), compile has returned Ok with that status, judge
\* has returned CompilationError, which is not fatal, and no test case was executed.
C13_CompilerFailureIsVerdict ==
    (/\ compile_result.called
     /\ compile_result.exit = "failure"
     /\ ~compile_result.oom
     /\ CgroupOf("compile", nread, 0) \notin cgroups)
    => /\ compile_result.ok
       /\ task = "returned"
       /\ response.result.tag = "CompilationError"
       /\ ~response.is_fatal_error
       /\ exec_calls = <<>>

\* the compiler failed on a submission of two tests
C13_Witness ==
    /\ task = "returned"
    /\ Len(request.test_cases) = 2
    /\ compile_result.called
    /\ compile_result.exit = "failure"
    /\ compile_result.ok
    /\ response.result.tag = "CompilationError"

\* C14: when every test has passed and handler.cleanup returns an error, the verdict is
\* InternalError with is_fatal_error = true, not Accepted.
C14_CleanupErrorSupersedes ==
    /\ (cleanup_calls > 0 =>
            /\ Len(exec_results) = Len(request.test_cases)
            /\ \A k \in 1..Len(exec_results) : Passed(k))
    /\ (task = "returned" /\ cleanup_calls > 0 /\ fs # {} =>
            /\ response.result.tag = "InternalError"
            /\ response.is_fatal_error)

\* two tests passed, every attempt of the removal failed
C14_Witness ==
    /\ task = "returned"
    /\ Len(exec_results) = 2
    /\ cleanup_calls = RETRY_DELAYS + 1
    /\ fs # {}
    /\ response.result.tag = "InternalError"

\* the one test of a one-test submission, and the program submitted
TheCase == request.test_cases[1]
TheProgram == request.source_code

\* the program of a one-test submission has been run and execute has returned
OneTestRun ==
    /\ TheProgram.kind = "prints"
    /\ Len(exec_results) = 1

\* the one test's usage, as execute reported it, is within the request's limits
WithinLimits ==
    /\ exec_results[1].ok
    /\ exec_results[1].usage.cpu_time_ms <= request.limits.time_ms
    /\ exec_results[1].usage.memory_kib <= request.limits.memory_kib

\* C15: execute fails with OutputLimitExceeded exactly when stdout is longer than twice the
\* expected output or stderr is longer than 128 KiB, each stream against its own limit.
C15_OutputLimitsPerStream ==
    OneTestRun =>
        LET over == \/ Len(TheProgram.stdout) > 2 * Len(TheCase.expected_output)
                    \/ Len(TheProgram.stderr) > STDERR_LIMIT_BYTES
        IN  /\ exec_results[1].ok => ~over
            /\ (~exec_results[1].ok /\ result.err.kind = "OutputLimitExceeded") => over

\* C16: a program that exits successfully within the time and memory limits and prints
\* exactly the expected output followed by one newline passes the test, for every expected
\* output, the empty one included.
C16_ExpectedPlusNewlinePasses ==
    (/\ OneTestRun
     /\ TheProgram.success
     /\ TheProgram.stdout = TheCase.expected_output \o <<"\n">>
     /\ TheProgram.stderr = <<>>)
    => /\ WithinLimits => Passed(1)
       /\ ~exec_results[1].ok => result.err.kind # "OutputLimitExceeded"

\* C17 as stated: for every non-empty expected output, a program that exits with code 0
\* within limits and prints nothing yields WrongAnswer.
C17_Original ==
    (/\ OneTestRun
     /\ TheProgram.success
     /\ TheProgram.stdout = <<>>
     /\ WithinLimits
     /\ TheCase.expected_output # <<>>)
    => /\ task = "returned"
       /\ response.result.tag = "WrongAnswer"

\* C17: for every expected output that holds a character other than white space, a program
\* that exits with code 0 within limits and prints nothing yields WrongAnswer, never
\* RuntimeError and never a pass; for an expected output of white space only it passes.
C17_SilentProgramIsWrongAnswer ==
    (/\ OneTestRun
     /\ TheProgram.success
     /\ TheProgram.stdout = <<>>
     /\ WithinLimits)
    => IF Trim(TheCase.expected_output) # <<>>
       THEN /\ task = "returned"
            /\ response.result = WrongAnswer(Trim(TheCase.expected_output), <<>>)
       ELSE /\ Passed(1)
            /\ task = "returned" => response.result.tag \notin {"WrongAnswer", "RuntimeError"}

\* the expected output is "a\n", the program printed nothing and exited with code 0
C17_Witness ==
    /\ OneTestRun
    /\ TheProgram.success
    /\ TheProgram.stdout = <<>>
    /\ WithinLimits
    /\ TheCase.expected_output = <<"a", "\n">>
    /\ response.result.tag = "WrongAnswer"

AsciiWhiteSpace == {" ", "\n", "\t", "\r"}

RECURSIVE TrimAsciiStart(_)
TrimAsciiStart(s) ==
    IF s = <<>> THEN <<>>
    ELSE IF Head(s) \in AsciiWhiteSpace THEN TrimAsciiStart(Tail(s))
    ELSE s

RECURSIVE TrimAsciiEnd(_)
TrimAsciiEnd(s) ==
    IF s = <<>> THEN <<>>
    ELSE IF s[Len(s)] \in AsciiWhiteSpace THEN TrimAsciiEnd(SubSeq(s, 1, Len(s) - 1))
    ELSE s

TrimAscii(s) == TrimAsciiEnd(TrimAsciiStart(s))

\* C18: a run that reaches the output comparison passes it exactly when expected and actual
\* are equal once the ASCII white space at their ends is taken off: nothing else is
\* discarded at the ends, and white space inside is significant.
C18_TrimsAsciiOnly ==
    (OneTestRun /\ WithinLimits /\ exec_results[1].success) =>
        (Passed(1) <=>
            TrimAscii(TheCase.expected_output) = TrimAscii(FromUtf8Lossy(TheProgram.stdout)))

\* C19: the cpu_time_ms execute returns is the usage_usec of cpu.stat divided by 1000.
C19_CpuTimeInMilliseconds ==
    (/\ Len(exec_results) > 0
     /\ exec_results[Len(exec_results)].ok
     /\ cpu_stat.parsed.ok)
    => exec_results[Len(exec_results)].usage.cpu_time_ms
           = cpu_stat.parsed.val.usage_usec \div 1000

\* the lines of the text given to the parser, and the tokens of line i
TheLines == Lines(cpu_stat.text)
TokensOf(i) == SplitWhitespace(TheLines[i])

\* the number a sequence of digits denotes
RECURSIVE NumeralValue(_)
NumeralValue(digits) ==
    IF digits = <<>> THEN 0
    ELSE 10 * NumeralValue(SubSeq(digits, 1, Len(digits) - 1))
         + DigitValue(digits[Len(digits)])

\* the token is a base-10 non-negative integer that fits the model's u64
IsNumeral(token) ==
    LET digits == IF token # <<>> /\ Head(token) = "+" THEN Tail(token) ELSE token
    IN  /\ digits # <<>>
        /\ \A i \in 1..Len(digits) : digits[i] \in DigitChars
        /\ NumeralValue(digits) <= U64_MAX

NumeralOf(token) ==
    NumeralValue(IF Head(token) = "+" THEN Tail(token) ELSE token)

BadRow(i) == Len(TokensOf(i)) # 2
BadNumber(i) == Len(TokensOf(i)) = 2 /\ ~IsNumeral(TokensOf(i)[2])
Rejected == {i \in 1..Len(TheLines) : BadRow(i) \/ BadNumber(i)}

RequiredKeys == {"usage_usec", "user_usec", "system_usec"}
LinesOf(key) == {i \in 1..Len(TheLines) : TokensOf(i)[1] = <<key>>}
\* the value on the last line that has the key
ValueOf(key) ==
    NumeralOf(TokensOf(CHOOSE i \in LinesOf(key) : \A j \in LinesOf(key) : j <= i)[2])

\* C20: the parser answers every text: with InvalidRow or InvalidNumber according to the
\* first line in input order that does not have exactly two tokens or whose second token
\* is not a base-10 non-negative integer fitting u64; when every line is well formed, with
\* MissingImportantField naming a required key that is absent; and otherwise with the
\* three values.
C20_ParseClassifies ==
    cpu_stat.parsed # NoResult =>
        IF Rejected # {}
        THEN LET first == CHOOSE i \in Rejected : \A j \in Rejected : i <= j
             IN  /\ ~cpu_stat.parsed.ok
                 /\ cpu_stat.parsed.err.kind =
                        IF BadRow(first) THEN "InvalidRow" ELSE "InvalidNumber"
        ELSE IF \E key \in RequiredKeys : LinesOf(key) = {}
        THEN /\ ~cpu_stat.parsed.ok
             /\ cpu_stat.parsed.err.kind = "MissingImportantField"
             /\ \E key \in RequiredKeys :
                   /\ LinesOf(key) = {}
                   /\ cpu_stat.parsed.err.arg = <<key>>
        ELSE /\ cpu_stat.parsed.ok
             /\ cpu_stat.parsed.val =
                    [usage_usec |-> ValueOf("usage_usec"),
                     user_usec |-> ValueOf("user_usec"),
                     system_usec |-> ValueOf("system_usec")]

\* a text of three lines whose first line has a bad number and whose second line has one
\* token, answered InvalidNumber
C20_Witness ==
    /\ cpu_stat.parsed # NoResult
    /\ Len(TheLines) = 3
    /\ BadNumber(1)
    /\ BadRow(2)
    /\ cpu_stat.parsed.err.kind = "InvalidNumber"

\* a line without tokens, and a well-formed row of a key that is not one of the three
BlankLine(line) == SplitWhitespace(line) = <<>>
ExtraKeyLine(line) ==
    LET parts == SplitWhitespace(line)
    IN  /\ Len(parts) = 2
        /\ IsNumeral(parts[2])
        /\ \A key \in RequiredKeys : parts[1] # <<key>>
KeptLine(line) == ~BlankLine(line) /\ ~ExtraKeyLine(line)

\* C21: rows of other keys and lines without tokens are ignored: the parser answers a
\* text as it answers the text without these lines.
C21_ExtraKeysAndBlankLinesIgnored ==
    cpu_stat.parsed # NoResult =>
        cpu_stat.parsed = CpuStatsFromStr(JoinLines(SelectSeq(TheLines, KeptLine)))

\* C22: the calls of receive_data return, in order, exactly the payloads send_data wrote in
\* full; a call returns an error only once the stream has ended short of a complete
\* frame, and then it does return an error.
C22_FramingRoundTrips ==
    /\ Len(received) <= Len(sent) + 1
    /\ \A i \in 1..Len(received) :
          IF i <= Len(sent)
          THEN received[i] = Ok(sent[i])
          ELSE /\ ~received[i].ok
               /\ received[i].err.kind = "UnexpectedEof"
               /\ stream.eof
    /\ (stream.eof /\ Len(received) = Len(sent)) =>
          LET r == ReceiveData(stream.bytes, TRUE)
          IN  r.done /\ ~r.res.ok

\* two frames, the first of 256 bytes and the second one that reads like a frame itself,
\* were read back, and the next read met the end of the stream inside a third frame
C22_Witness ==
    /\ Len(sent) = 2
    /\ Len(sent[1]) = 256
    /\ sent[2] = <<1, 0, 0, 0, 7>>
    /\ Len(received) = 3
    /\ received[1] = Ok(sent[1])
    /\ received[2] = Ok(sent[2])
    /\ ~received[3].ok
    /\ received[3].err.got > 4

\* C23: decoding the encoding of a request or of a response gives the value back, whatever
\* its result variant and whether its is_fatal_error is present or absent.
C23_CodecRoundTrips ==
    decoded # NoResult => decoded = Ok(plain)

\* C24: within one judgment the handler is called in the order prepare, compile, execute,
\* cleanup: nothing is called before prepare has returned, and nothing after it unless it
\* returned a context; compile is called exactly when needs_compile() returned true, once,
\* before any execute; execute is called once per test case, in list order, one call at a
\* time; cleanup is called only after the execute call of the last test case has returned.
C24_HandlerCallOrder ==
    /\ task = "prepare" =>
          ~compile_result.called /\ exec_calls = <<>> /\ cleanup_calls = 0
    /\ (compile_result.called \/ exec_calls # <<>> \/ cleanup_calls > 0) =>
          ctx # NoContext
    /\ task \in {"compile", "compile_wait"} =>
          /\ need_compile
          /\ ~compile_result.called
          /\ exec_calls = <<>>
          /\ cleanup_calls = 0
    /\ compile_result.called => need_compile
    /\ exec_calls # <<>> => (need_compile <=> compile_result.called)
    /\ Len(exec_calls) <= Len(request.test_cases)
    /\ \A k \in 1..Len(exec_calls) : exec_calls[k] = k
    /\ Len(exec_results) <= Len(exec_calls)
    /\ Len(exec_calls) <= Len(exec_results) + 1
    /\ task \in {"execute", "execute_stdin", "execute_wait"} => cleanup_calls = 0
    /\ task = "execute" => Len(exec_results) = Len(exec_calls)
    /\ task = "cleanup" => cleanup_calls = retries
    /\ (task = "cleanup" \/ cleanup_calls > 0) =>
          /\ Len(exec_calls) = Len(request.test_cases)
          /\ Len(exec_results) = Len(request.test_cases)
          /\ (need_compile <=> compile_result.called)

\* a judgment of two tests with a handler that needs no compile step: prepare, two
\* execute calls and cleanup were called, compile was not
C24_Witness ==
    /\ task = "returned"
    /\ ctx # NoContext
    /\ ~need_compile
    /\ ~compile_result.called
    /\ exec_calls = <<1, 2>>
    /\ Len(exec_results) = 2
    /\ cleanup_calls = 1
    /\ response.result.tag = "Accepted"

\* the steps of an execute call that read the cgroup's statistics
StatSteps == {"memory_stat", "cpu_stat"}

\* C25: when the deadline of an execute call has fired before the child exited, the call
\* has left the child terminated and reaped and the cgroup destroyed, has read no
\* statistics, and the judgment has ended with the TimeLimitExceeded verdict, not fatal.
C25_TimeoutEndsChild ==
    exec_run.wait = "timeout" =>
        /\ child = "reaped"
        /\ CgroupOf("execute", nread, case_idx) \notin cgroups
        /\ \A k \in 1..Len(exec_steps) : exec_steps[k] \notin StatSteps
        /\ task = "returned"
        /\ response.result = TimeLimitExceeded
        /\ ~response.is_fatal_error

\* the place of each step in the order of cpp.rs 130-207
StepRank(step) ==
    CASE step = "spawn" -> 1
      [] step = "build" -> 2
      [] step = "add_task" -> 3
      [] step = "stdin" -> 4
      [] step = "wait" -> 5
      [] step = "memory_stat" -> 6
      [] step = "cpu_stat" -> 7
      [] step = "delete" -> 8

\* C26: the steps an execute call has taken are in the order spawn, create the cgroup,
\* attach the child, write stdin, wait, read the memory statistics, read cpu.stat, delete
\* the cgroup, with no step before the wait left out: so statistics are read before the
\* cgroup is deleted, and after the delete the call takes no further step.
C26_ExecuteStepOrder ==
    /\ \A i, j \in 1..Len(exec_steps) :
          i < j => StepRank(exec_steps[i]) < StepRank(exec_steps[j])
    /\ \A k \in 1..Len(exec_steps) :
          StepRank(exec_steps[k]) <= 5 => StepRank(exec_steps[k]) = k
    /\ \A k \in 1..Len(exec_steps) :
          StepRank(exec_steps[k]) > 5 => \E i \in 1..(k - 1) : exec_steps[i] = "wait"
    /\ \A k \in 1..Len(exec_steps) :
          exec_steps[k] = "cpu_stat" => \E i \in 1..(k - 1) : exec_steps[i] = "memory_stat"
    /\ \A k \in 1..Len(exec_steps) :
          exec_steps[k] = "delete" => k = Len(exec_steps)

\* an execute call that took every step, and deleted its cgroup
C26_Witness ==
    /\ exec_steps = <<"spawn", "build", "add_task", "stdin", "wait", "memory_stat",
                      "cpu_stat", "delete">>
    /\ Len(exec_results) = 1
    /\ exec_results[1].ok
    /\ CgroupOf("execute", nread, 1) \notin cgroups

\* the execute call that returned last: its index, what it returned, and whether its
\* cgroup is gone
LastCall == Len(exec_results)
LastReturned == IF exec_results[LastCall].ok THEN exec_results[LastCall] ELSE result
LastCgroupDeleted == CgroupOf("execute", nread, LastCall) \notin cgroups

\* C27: when the child of an execute call has exited within the deadline (and the call has
\* deleted its cgroup), the call has failed with MemoryLimitExceeded if and only if the
\* failure counter was above 0 or the peak usage above memory_limit_kib * 1024; a peak
\* equal to the limit is no breach.
C27_MemoryLimitExact ==
    (exec_run.wait = "exited" /\ LastCgroupDeleted) =>
        LET breach ==
                \/ exec_run.fail_cnt > 0
                \/ exec_run.max_usage_in_bytes > request.limits.memory_kib * 1024
        IN  /\ breach <=> LastReturned = Err(HandlerMemoryLimitExceeded)
            /\ (exec_run.fail_cnt = 0
                /\ exec_run.max_usage_in_bytes = request.limits.memory_kib * 1024)
               => LastReturned # Err(HandlerMemoryLimitExceeded)

\* a child whose peak usage was one byte above the limit, with a failure counter of 0
C27_Witness ==
    /\ exec_run.wait = "exited"
    /\ exec_run.fail_cnt = 0
    /\ exec_run.max_usage_in_bytes = request.limits.memory_kib * 1024 + 1
    /\ LastCgroupDeleted
    /\ LastReturned = Err(HandlerMemoryLimitExceeded)
    /\ response.result = MemoryLimitExceeded

\* the breaches of the run of the last execute call, as the limits of its request and of
\* its test case define them
MemoryBroken ==
    \/ exec_run.fail_cnt > 0
    \/ exec_run.max_usage_in_bytes > request.limits.memory_kib * 1024
StdoutBroken ==
    /\ exec_run.fail_cnt = 0
    /\ exec_run.stdout_len > 2 * Len(request.test_cases[LastCall].expected_output)

\* C28: an execute call (that has deleted its cgroup) reports the first breach in the order
\* timeout, memory, output: TimeLimitExceeded when the deadline fired, MemoryLimitExceeded
\* when memory was breached, whatever the output, OutputLimitExceeded when only the
\* output was; and the judgment then ends with that verdict, not with RuntimeError or
\* WrongAnswer, whatever the program's exit status and output were.
C28_BreachOrder ==
    (exec_run # NoRun /\ LastCgroupDeleted) =>
        LET verdict ==
                CASE exec_run.wait = "timeout" -> TimeLimitExceeded
                  [] exec_run.wait = "exited" /\ MemoryBroken -> MemoryLimitExceeded
                  [] exec_run.wait = "exited" /\ ~MemoryBroken /\ StdoutBroken ->
                        OutputLimitExceeded
                  [] OTHER -> [tag |-> "none"]
        IN  verdict.tag # "none" =>
                /\ ~exec_results[LastCall].ok
                /\ result = Err([kind |-> verdict.tag, msg |-> ""])
                /\ task = "returned"
                /\ response.result = verdict

\* a run that breached the memory limit and the output limit, and whose output was not
\* the expected one either, answered MemoryLimitExceeded
C28_Witness ==
    /\ exec_run.wait = "exited"
    /\ exec_run.fail_cnt = 0
    /\ exec_run.max_usage_in_bytes > request.limits.memory_kib * 1024
    /\ StdoutBroken
    /\ LastCgroupDeleted
    /\ response.result = MemoryLimitExceeded

InfrastructureKinds == {"IoError", "CgroupError", "ParseCpuStatsError", "InternalError"}
LimitKinds == {"TimeLimitExceeded", "MemoryLimitExceeded", "OutputLimitExceeded"}
AnswersByKind(e, resp) ==
    /\ e.kind \in InfrastructureKinds =>
          resp.result.tag = "InternalError" /\ resp.is_fatal_error
    /\ e.kind \in LimitKinds =>
          resp.result.tag = e.kind /\ ~resp.is_fatal_error
    /\ resp.result.tag \notin {"Accepted", "WrongAnswer", "RuntimeError", "CompilationError"}

\* C30: a judgment that has ended on an error of handler.execute has answered with
\* InternalError, fatal, for an I/O, cgroup, cpu.stat parse or internal error and with the
\* verdict of the same name, not fatal, for TimeLimitExceeded, MemoryLimitExceeded and
\* OutputLimitExceeded; the conversion gives no handler error of any kind the verdict
\* Accepted, WrongAnswer, RuntimeError or CompilationError.
C30_HandlerErrorsByKind ==
    /\ (task = "returned" /\ ~result.ok /\ "err" \in DOMAIN result) =>
          AnswersByKind(result.err, response)
    /\ \A e \in HandlerErrors :
          AnswersByKind(e, IntoJudgeResponse(FromHandlerError(e), 1))

\* the second test's execute failed to parse cpu.stat and the judgment ended fatally
C30_Witness ==
    /\ task = "returned"
    /\ Len(exec_calls) = 2
    /\ result = Err(ParseCpuStatsError("parse"))
    /\ response.result = InternalError("parse")
    /\ response.is_fatal_error

\* C31: cleanup removes the executable, then the source file, then the working directory
\* (so the files left at any time are a suffix of that order), and within one judgment it
\* makes at most 3 attempts in total.
C31_CleanupThreeAttempts ==
    /\ fs \in {{}, {DIR}, {DIR, SOURCE_FILE}, {DIR, SOURCE_FILE, EXECUTABLE_FILE}}
    /\ cleanup_calls <= 3

\* C32: when an attempt of cleanup has removed the executable and then failed at the source
\* file or at the directory, the next attempt, if nothing fails in the file system any
\* more, succeeds and leaves executable, source file and directory all removed.
C32_TransientFaultTolerated ==
    (task = "cleanup" /\ retries > 0 /\ EXECUTABLE_FILE \notin fs /\ DIR \in fs) =>
        /\ RemoveAll(fs, "none").ok
        /\ RemoveAll(fs, "none").files = {}

\* C33: the agent and the compiler never run under a seccomp filter; while a program
\* spawned by execute exists it runs under the Basic filter, loaded before it was exec'd;
\* and when the load of the filter has failed, no program runs, and execute has returned
\* an I/O error that came from spawn.
C33_SeccompScopedToProgram ==
    /\ seccomp.agent = "none"
    /\ seccomp.compiler = "none"
    /\ (exec_steps # <<>> /\ child = "running") => seccomp.program = "Basic"
    /\ task \in {"execute_stdin", "execute_wait"} => seccomp.program = "Basic"
    /\ seccomp.load_failed =>
          /\ seccomp.program = "none"
          /\ child = NoChild
          /\ exec_steps = <<"spawn">>
          /\ result = Err(IoError("seccomp"))
          /\ task = "returned"
          /\ response.result = InternalError("seccomp")

\* the second test's program is running under the Basic filter after the compiler ran
\* without one
C33_Witness ==
    /\ task = "execute_wait"
    /\ case_idx = 2
    /\ compile_result.called
    /\ seccomp = [agent |-> "none", compiler |-> "none", program |-> "Basic",
                  load_failed |-> FALSE]

\* a call of handler.execute has spawned its child and has not returned
InExecute == task \in {"execute_stdin", "execute_wait"}

\* C34: every call of execute returns, whatever the child does.
C34_ExecuteReturns == InExecute ~> ~InExecute

\* C35: whatever a handler returns from its calls, the judging task does not panic, and
\* main never ends on a JoinError with a request left without its frame.
C35_JudgeNeverPanics ==
    /\ task # "panicked"
    /\ exit_reason # "Join"

\* the number of whole KiB that hold `bytes` bytes
CeilKib(bytes) ==
    CHOOSE k \in 0..(WORD \div KIB) : k * KIB >= bytes /\ (k = 0 \/ (k - 1) * KIB < bytes)

\* C36: when execute has returned Ok, the memory_kib it reports is the peak usage in
\* bytes divided by 1024 and rounded up, and is not above the memory limit of the request,
\* also when the limit times 1024 is outside the u64 range; and the judgment does not end
\* on the Engine's own memory check.
C36_MemoryKibWithinLimit ==
    (exec_results # <<>> /\ exec_results[LastCall].ok /\ exec_run # NoRun) =>
        LET memory_kib == exec_results[LastCall].usage.memory_kib
        IN  /\ memory_kib = CeilKib(exec_run.max_usage_in_bytes)
            /\ memory_kib <= request.limits.memory_kib
            /\ (task = "returned" => response.result # MemoryLimitExceeded)

\* execute returned Ok for a limit of 65 KiB, whose number of bytes is outside the u64
\* range, and a peak usage of 1024 bytes
C36_Witness ==
    /\ exec_results # <<>>
    /\ exec_results[LastCall].ok
    /\ MulOverflows(request.limits.memory_kib)
    /\ request.limits.memory_kib = 65
    /\ exec_run # NoRun
    /\ exec_run.max_usage_in_bytes = KIB
    /\ exec_results[LastCall].usage.memory_kib = 1

\* firecracker.rs 97-147: the methods that store into the configuration
ConfigMutators ==
    {"set_boot_source", "set_machine_config", "add_drive", "add_network", "add_pmem",
     "set_vsock", "set_balloon"}

\* this step is a call of a method of the wrapper, one of `methods`
CalledOneOf(methods) ==
    firecracker'.tick # firecracker.tick /\ firecracker'.call \in methods

\* the call of this step has returned Error::InvalidState
ReturnsInvalidState ==
    ~firecracker'.ret.ok /\ firecracker'.ret.err.kind = "InvalidState"

\* C37: a configuration method of the Firecracker wrapper returns Ok exactly when the
\* state is NotStarted; called in another state it returns InvalidState, and the stored
\* configuration is what it was before the call.
C37_MutatorsOnlyNotStarted ==
    [][CalledOneOf(ConfigMutators) =>
          /\ firecracker'.state = firecracker.state
          /\ IF firecracker.state = "NotStarted"
             THEN firecracker'.ret = Ok("unit")
             ELSE /\ ReturnsInvalidState
                  /\ firecracker'.config = firecracker.config]_vars

\* set_vsock was called on a paused wrapper that has a configuration, and was refused
C37_Witness ==
    /\ firecracker.call = "set_vsock"
    /\ ~firecracker.ret.ok
    /\ firecracker.ret.err.kind = "InvalidState"
    /\ firecracker.state = "Paused"
    /\ firecracker.config.boot_source.some
    /\ ~firecracker.config.vsock.some

\* C38: the state of the wrapper changes only in a start that returns Ok (NotStarted to
\* Running), a pause that returns Ok (Running to Paused), a resume that returns Ok (Paused
\* to Running) and a shutdown (to Stopped); start outside NotStarted, pause outside
\* Running and resume outside Paused return InvalidState; and a start, pause or resume
\* that returns an error leaves the state as it was.
C38_StateTransitions ==
    [][/\ firecracker'.state # firecracker.state =>
             /\ firecracker'.tick # firecracker.tick
             /\ firecracker'.ret = Ok("unit")
             /\ \/ /\ firecracker'.call = "start"
                   /\ firecracker.state = "NotStarted"
                   /\ firecracker'.state = "Running"
                \/ /\ firecracker'.call = "pause"
                   /\ firecracker.state = "Running"
                   /\ firecracker'.state = "Paused"
                \/ /\ firecracker'.call = "resume"
                   /\ firecracker.state = "Paused"
                   /\ firecracker'.state = "Running"
                \/ /\ firecracker'.call = "shutdown"
                   /\ firecracker'.state = "Stopped"
       /\ (CalledOneOf({"start"}) /\ firecracker.state # "NotStarted") => ReturnsInvalidState
       /\ (CalledOneOf({"pause"}) /\ firecracker.state # "Running") => ReturnsInvalidState
       /\ (CalledOneOf({"resume"}) /\ firecracker.state # "Paused") => ReturnsInvalidState
       /\ (CalledOneOf({"start", "pause", "resume"}) /\ ~firecracker'.ret.ok) =>
             firecracker'.state = firecracker.state]_vars

\* a pause of a running wrapper has failed at its API request, and the wrapper is running
C38_Witness ==
    /\ firecracker.call = "pause"
    /\ firecracker.ret = Err(ApiError)
    /\ firecracker.state = "Running"

\* C39: a shutdown returns Ok and leaves the state Stopped and client, process and
\* instance_info None, whatever the state before and whatever became of the SendCtrlAltDel
\* request and of the kill; and once the state is Stopped it stays Stopped, and start,
\* pause, resume and the configuration methods return InvalidState.
C39_ShutdownAlwaysStops ==
    [][/\ CalledOneOf({"shutdown"}) =>
             /\ firecracker'.ret = Ok("unit")
             /\ firecracker'.state = "Stopped"
             /\ firecracker'.client = None
             /\ firecracker'.process = None
             /\ firecracker'.instance_info = None
       /\ firecracker.state = "Stopped" =>
             /\ firecracker'.state = "Stopped"
             /\ CalledOneOf({"start", "pause", "resume"} \cup ConfigMutators) =>
                   ReturnsInvalidState]_vars

\* a shutdown of a started wrapper in which both the SendCtrlAltDel request and the kill
\* failed: the Firecracker process is alive and the wrapper is stopped and empty
C39_Witness ==
    /\ firecracker.call = "shutdown"
    /\ firecracker.ctrl_alt_del = "failed"
    /\ firecracker.kill = "failed"
    /\ firecracker.procs # {}
    /\ firecracker.state = "Stopped"
    /\ firecracker.ret = Ok("unit")

\* C40: while the state is NotStarted the wrapper holds no child process and no API
\* client; after a start that returned an error no Firecracker process that the wrapper
\* spawned is alive; and at most one such process is alive at any time.
C40_NotStartedHoldsNothing ==
    /\ firecracker.state = "NotStarted" =>
          ~firecracker.process.some /\ ~firecracker.client.some
    /\ (firecracker.call = "start" /\ ~firecracker.ret.ok) => firecracker.procs = {}
    /\ Cardinality(firecracker.procs) <= 1

====
